---- MODULE Spec2Model ----
(***************************************************************************)
(* A model of the sql-protocol crate: the packet framer (proto/packets.rs) *)
(* with its sequence counter, the command dispatcher and the result        *)
(* streamer, and the connection worker (proto/connection.rs).              *)
(*                                                                         *)
(* Seven specifications: Spec drives one framer command by command,        *)
(* SpecConn runs Connection::handle, SpecFrame lets a second framer read   *)
(* what write_packet wrote (long payloads, counter near 255), SpecAuth     *)
(* builds and parses handshake responses (proto/auth.rs), SpecGreeting     *)
(* writes and parses the greeting (proto/greeting.rs), SpecLen applies the *)
(* length-encoded integer functions, SpecListener interleaves the workers  *)
(* of several connections (proto/listener.rs).                             *)
(*                                                                         *)
(* Bytes are integers 0..255, byte strings are sequences of bytes, u16 and *)
(* u32 values are naturals with the bit operations written out.            *)
(***************************************************************************)
EXTENDS Integers, Sequences, FiniteSets, TLC

VARIABLES
    sequence_id,    \* Packets.sequence_id (u8)
    capability,     \* Packets.capability (u32)
    status_flags,   \* Packets.status_flags (u16)
    written,        \* what the framer wrote to its stream since the current operation
                    \* began (Spec) or since the connection was accepted (SpecConn)
    pc,             \* where the worker is: "idle", "in_handler", "closed", ...
    ret,            \* what the last handle_next_command / handle returned
    field_sent,     \* exec_query local
    send_finished,  \* exec_query local
    more,           \* exec_query argument
    cb_ret,         \* what the last callback invocation returned to the handler
    calls,          \* callback invocations made by the handler in this query
    entry_seq,      \* sequence_id the framer held when the operation was entered
    op,             \* the operation in progress or last completed
    given_fields,   \* the field list the handler passed in its first invocation
    given_first,    \* the SqlResult the handler passed in its first invocation
    given_rows,     \* the rows the handler passed in the invocations after a field list
    cmd,            \* what the client's side of the stream held when the operation read it
    read_at,        \* sequence_id the framer held when it read the header
    hdr_ret,        \* what read_header returned in this operation
    payload,        \* the payload the read returned in this operation
    hret,           \* what the handler's com_query returned: "None" until it has
    finish,         \* what exec_query wrote after com_query returned
    auth,           \* Connection.auth (Auth)
    greeting,       \* Connection.greeting (Greeting)
    peer,           \* a second framer, reading what this one wrote
    overflow_checks, \* whether the build checks integer overflow (debug profile)
    client,         \* what a client passed to write_handshake_resp
    auth_before,    \* the Auth as it was when the last parse was entered
    client_greeting, \* the Greeting a client parsed the server's handshake into
    handler_calls,  \* the Handler methods Connection::handle has called, in order
    len_value,      \* the u64 given to write_len_int and len_enc_int_size
    len_size,       \* what len_enc_int_size returned, 0 before the call
    listener,       \* the Listener: its connection_id counter
    conns           \* the Connection each spawned worker owns, in order of accept

vars == << sequence_id, capability, status_flags, written, pc, ret, field_sent,
           send_finished, more, cb_ret, calls, entry_seq, op, given_fields, given_first,
           given_rows,
           cmd, read_at, hdr_ret, payload, hret, finish, auth, greeting, peer,
           overflow_checks, client, auth_before, client_greeting, handler_calls,
           len_value, len_size,
           listener, conns >>

----------------------------------------------------------------------------
(* Program constants (constants.rs).                                       *)

MAX_PACKET_SIZE == 16777215
PROTOCOL_VERSION == 10
CHARACTER_SET_UTF8 == 33
SERVER_STATUS_AUTOCOMMIT == 2
OK_PACKET == 0
ERR_PACKET == 255
EOF_PACKET == 255
SERVER_MORE_RESULTS_EXISTS == 8

CapabilityClientLongPassword == 1
CapabilityClientFoundRows == 2
CapabilityClientLongFlag == 4
CapabilityClientConnectWithDB == 8
CapabilityClientProtocol41 == 512
CapabilityClientSSL == 2048
CapabilityClientTransactions == 8192
CapabilityClientSecureConnection == 32768
CapabilityClientMultiStatements == 65536
CapabilityClientMultiResults == 131072
CapabilityClientPluginAuth == 524288
CapabilityClientConnAttr == 1048576
CapabilityClientPluginAuthLenencClientData == 2097152
CapabilityClientDeprecateEOF == 16777216

ERUnknownError == 1105
ERUnknownComError == 1047

SSUnknownSQLState == << 72, 89, 48, 48, 48 >>      \* "HY000"
SSUnknownComError == << 48, 56, 83, 48, 49 >>      \* "08S01"
MYSQL_NATIVE_PASSWORD ==                           \* "mysql_native_password"
    << 109, 121, 115, 113, 108, 95, 110, 97, 116, 105, 118, 101, 95,
       112, 97, 115, 115, 119, 111, 114, 100 >>

MysqlNullType == 0
MysqlInt32 == 263
MysqlVarchar == 6165
MysqlUint8 == 770

----------------------------------------------------------------------------
(* Bit and byte arithmetic on fixed-width unsigned integers.               *)

\* x & b # 0 for a single-bit mask b
HasBit(x, b) == (x \div b) % 2 = 1
\* x | b for a single-bit mask b
SetBit(x, b) == IF HasBit(x, b) THEN x ELSE x + b
\* x & !b for a single-bit mask b
ClearBit(x, b) == IF HasBit(x, b) THEN x - b ELSE x

U8(v) == << v % 256 >>
U16LE(v) == << v % 256, (v \div 256) % 256 >>
U24LE(v) == << v % 256, (v \div 256) % 256, (v \div 65536) % 256 >>
U32LE(v) == << v % 256, (v \div 256) % 256, (v \div 65536) % 256,
               (v \div 16777216) % 256 >>
\* the values the model writes as u64 are below 2^31: the upper four bytes are zero
U64LE(v) == U32LE(v) \o << 0, 0, 0, 0 >>

\* u8 increment as the release build performs it
Inc8(s) == (s + 1) % 256

----------------------------------------------------------------------------
(* Length-encoded integers and strings (packets.rs 27-61, 571-585).        *)

\* write_len_int with the first boundary taken inclusively
write_len_int_inclusive(value) ==
    IF value <= 251 THEN U8(value)
    ELSE IF value < 65536 THEN << 252 >> \o U16LE(value)
    ELSE IF value < 16777216 THEN << 253 >> \o U24LE(value)
    ELSE << 254 >> \o U64LE(value)

write_len_int(value) ==
    IF value < 251 THEN U8(value)
    ELSE IF value < 65536 THEN << 252 >> \o U16LE(value)
    ELSE IF value < 16777216 THEN << 253 >> \o U24LE(value)
    ELSE << 254 >> \o U64LE(value)

write_len_str(s) == write_len_int(Len(s)) \o s

len_enc_int_size(n) ==
    IF n < 251 THEN 1
    ELSE IF n < 65536 THEN 3
    ELSE IF n < 16777216 THEN 4
    ELSE 9

len_enc_str_size(v) == len_enc_int_size(Len(v)) + Len(v)

----------------------------------------------------------------------------
(* The stream.  What the framer writes is kept as a list of writes; each   *)
(* write carries the bytes of its 4-byte header (empty when the bytes went *)
(* to the stream without one) and of its body.  kind names the routine     *)
(* that produced the write.                                                *)

Entry(kind, framed, hdr, body) ==
    [kind |-> kind, framed |-> framed, hdr |-> hdr, body |-> body]

\* the bytes a write puts on the wire
EntryBytes(e) == e.hdr \o e.body

RECURSIVE WireBytes(_)
WireBytes(es) ==
    IF es = << >> THEN << >> ELSE EntryBytes(Head(es)) \o WireBytes(Tail(es))

\* A result of a framer routine: the writes it made and the sequence_id it left.
Out(entries, seq) == [entries |-> entries, seq |-> seq]

----------------------------------------------------------------------------
(* Packets::read_header (packets.rs 120-149).  header holds the bytes the  *)
(* stream can still deliver, at most four of them.                         *)

read_header_unchecked(seq, header) ==
    IF Len(header) < 4
    THEN [ok |-> FALSE, err |-> "Read packet header failed", len |-> 0, seq |-> seq]
    ELSE [ok |-> TRUE, err |-> "",
          len |-> header[1] + header[2] * 256 + header[3] * 65536,
          seq |-> Inc8(seq)]

read_header(seq, header) ==
    IF Len(header) < 4
    THEN [ok |-> FALSE, err |-> "Read packet header failed", len |-> 0, seq |-> seq]
    ELSE IF header[4] # seq
    THEN [ok |-> FALSE, err |-> "Invalid sequence", len |-> 0, seq |-> seq]
    ELSE [ok |-> TRUE, err |-> "",
          len |-> header[1] + header[2] * 256 + header[3] * 65536,
          seq |-> Inc8(seq)]

\* Packets::read_content (packets.rs 189-194): exactly len bytes or a failure
read_content(len, body) ==
    IF Len(body) < len
    THEN [ok |-> FALSE, err |-> "UnexpectedEof", data |-> << >>]
    ELSE [ok |-> TRUE, err |-> "", data |-> SubSeq(body, 1, len)]

\* Packets::read_one_packet (packets.rs 151-161)
read_one_packet(seq, pkt) ==
    LET h == read_header(seq, pkt.hdr) IN
    IF ~h.ok THEN [ok |-> FALSE, err |-> h.err, data |-> << >>, seq |-> h.seq]
    ELSE IF h.len = 0 THEN [ok |-> TRUE, err |-> "", data |-> << >>, seq |-> h.seq]
    ELSE LET c == read_content(h.len, pkt.body) IN
         [ok |-> c.ok, err |-> c.err, data |-> c.data, seq |-> h.seq]

\* Packets::read_batch_packets (packets.rs 173-186): pkts are the packets that follow
RECURSIVE read_batch_packets(_, _, _)
read_batch_packets(seq, data, pkts) ==
    IF pkts = << >>
    THEN [ok |-> FALSE, err |-> "Read packet header failed", data |-> data, seq |-> seq]
    ELSE LET next == read_one_packet(seq, Head(pkts)) IN
         IF ~next.ok THEN [ok |-> FALSE, err |-> next.err, data |-> data, seq |-> next.seq]
         ELSE IF next.data = << >> THEN [ok |-> TRUE, err |-> "", data |-> data, seq |-> next.seq]
         ELSE IF Len(next.data) < MAX_PACKET_SIZE
              THEN [ok |-> TRUE, err |-> "", data |-> data \o next.data, seq |-> next.seq]
              ELSE read_batch_packets(next.seq, data \o next.data, Tail(pkts))

\* Packets::read_ephemeral_packet (packets.rs 99-118); pkts: the packets on the stream
read_ephemeral_packet(seq, pkts) ==
    IF pkts = << >>
    THEN [ok |-> FALSE, err |-> "Read packet header failed", data |-> << >>, seq |-> seq]
    ELSE
    LET h == read_header(seq, Head(pkts).hdr) IN
    IF ~h.ok THEN [ok |-> FALSE, err |-> h.err, data |-> << >>, seq |-> h.seq]
    ELSE IF h.len = 0 THEN [ok |-> TRUE, err |-> "", data |-> << >>, seq |-> h.seq]
    ELSE LET c == read_content(h.len, Head(pkts).body) IN
         IF ~c.ok THEN [ok |-> FALSE, err |-> c.err, data |-> << >>, seq |-> h.seq]
         ELSE IF h.len > MAX_PACKET_SIZE
              THEN read_batch_packets(h.seq, c.data, Tail(pkts))
              ELSE [ok |-> TRUE, err |-> "", data |-> c.data, seq |-> h.seq]

\* Packets::read_ephemeral_packet_direct (packets.rs 83-97)
read_ephemeral_packet_direct(seq, pkts) ==
    IF pkts = << >>
    THEN [ok |-> FALSE, err |-> "Read packet header failed", data |-> << >>, seq |-> seq]
    ELSE
    LET h == read_header(seq, Head(pkts).hdr) IN
    IF ~h.ok THEN [ok |-> FALSE, err |-> h.err, data |-> << >>, seq |-> h.seq]
    ELSE IF h.len = 0 THEN [ok |-> TRUE, err |-> "", data |-> << >>, seq |-> h.seq]
    ELSE IF h.len > MAX_PACKET_SIZE
         THEN [ok |-> FALSE, err |-> "MultiPacketNotSupport", data |-> << >>, seq |-> h.seq]
    ELSE LET c == read_content(h.len, Head(pkts).body) IN
         [ok |-> c.ok, err |-> c.err, data |-> c.data, seq |-> h.seq]

----------------------------------------------------------------------------
(* Packets::write_packet (packets.rs 375-410).                             *)

RECURSIVE write_packet_loop(_, _, _, _, _)
write_packet_loop(kind, data, len, index, seq) ==
    LET pkg_len == IF len > MAX_PACKET_SIZE THEN MAX_PACKET_SIZE ELSE len
        header == << pkg_len % 256, (pkg_len \div 256) % 256,
                     (pkg_len \div 65536) % 256, seq >>
        frame == Entry(kind, TRUE, header, SubSeq(data, index + 1, index + pkg_len))
        seq1 == Inc8(seq)
        rest == len - pkg_len
    IN  IF rest = 0
        THEN IF pkg_len = MAX_PACKET_SIZE
             THEN Out(<< frame, Entry("trailer", TRUE, << 0, 0, 0, seq1 >>, << >>) >>,
                      Inc8(seq1))
             ELSE Out(<< frame >>, seq1)
        ELSE LET r == write_packet_loop("fragment", data, rest, index + pkg_len, seq1)
             IN  Out(<< frame >> \o r.entries, r.seq)

write_packet(kind, data, seq) == write_packet_loop(kind, data, Len(data), 0, seq)

\* A stream as its writer meets it: it takes every byte, or it fails once it has
\* taken `after` bytes.
Unfailing == [fails |-> FALSE, after |-> 0]
FailsAfter(n) == [fails |-> TRUE, after |-> n]

\* the stream once it has taken n bytes
Spent(stream, n) == [stream EXCEPT !.after = IF stream.fails THEN stream.after - n ELSE 0]

\* the streams a greeting is written to: failing at once, inside the header, after
\* the header, inside the body, or not at all
StreamTakes == { FailsAfter(0), FailsAfter(2), FailsAfter(4), FailsAfter(6), Unfailing }

\* Write::write_all(bytes) on the stream (packets.rs 391, 396, 401): Ok once every
\* byte is taken, also for no bytes at all; otherwise the stream's error, with the
\* bytes taken before it left on the stream
write_all(bytes, stream) ==
    IF ~stream.fails \/ stream.after >= Len(bytes) THEN [ok |-> TRUE, taken |-> bytes]
    ELSE [ok |-> FALSE, taken |-> SubSeq(bytes, 1, stream.after)]

\* the header of the frame that carries pkg_len bytes (packets.rs 385-389)
frame_header(pkg_len, seq) ==
    << pkg_len % 256, (pkg_len \div 256) % 256, (pkg_len \div 65536) % 256, seq >>

\* what a write_all that failed left of a frame: a header, whole or in part, and a
\* part of the body
Partial(hdr, body) ==
    IF hdr = << >> /\ body = << >> THEN << >>
    ELSE << Entry("partial", TRUE, hdr, body) >>

\* Packets::write_packet on such a stream (packets.rs 375-410), frame by frame as
\* write_packet_loop: the ? of line 391, 396 or 401 returns the stream's error
\* before the sequence_id += 1 that follows it; the frames written before keep
\* their increments
RECURSIVE write_packet_on_loop(_, _, _, _, _, _)
write_packet_on_loop(kind, data, len, index, seq, stream) ==
    LET pkg_len == IF len > MAX_PACKET_SIZE THEN MAX_PACKET_SIZE ELSE len
        header == frame_header(pkg_len, seq)
        body == SubSeq(data, index + 1, index + pkg_len)
        h == write_all(header, stream)
        b == write_all(body, Spent(stream, 4))
        frame == Entry(kind, TRUE, header, body)
        seq1 == Inc8(seq)
        rest == len - pkg_len
        left == Spent(stream, 4 + pkg_len)
    IN  IF ~h.ok THEN [ok |-> FALSE, entries |-> Partial(h.taken, << >>), seq |-> seq]
        ELSE IF ~b.ok
        THEN [ok |-> FALSE, entries |-> Partial(header, b.taken), seq |-> seq]
        ELSE IF rest = 0
        THEN IF pkg_len = MAX_PACKET_SIZE
             THEN LET t == write_all(<< 0, 0, 0, seq1 >>, left) IN
                  IF t.ok
                  THEN [ok |-> TRUE,
                        entries |-> << frame,
                                       Entry("trailer", TRUE, << 0, 0, 0, seq1 >>, << >>) >>,
                        seq |-> Inc8(seq1)]
                  ELSE [ok |-> FALSE, entries |-> << frame >> \o Partial(t.taken, << >>),
                        seq |-> seq1]
             ELSE [ok |-> TRUE, entries |-> << frame >>, seq |-> seq1]
        ELSE LET r == write_packet_on_loop("fragment", data, rest, index + pkg_len, seq1,
                                           left)
             IN  [ok |-> r.ok, entries |-> << frame >> \o r.entries, seq |-> r.seq]

write_packet_on(kind, data, seq, stream) ==
    write_packet_on_loop(kind, data, Len(data), 0, seq, stream)

----------------------------------------------------------------------------
(* Response packets (packets.rs 275-373).                                  *)

write_ok_packet_swapped(affected_rows, last_insert_id, flags, warnings, seq) ==
    write_packet("ok",
                 << OK_PACKET >> \o write_len_int(last_insert_id)
                     \o write_len_int(affected_rows)
                     \o U16LE(flags) \o U16LE(warnings),
                 seq)

\* Packets::write_ok_packet (packets.rs 353-373)
write_ok_packet(affected_rows, last_insert_id, flags, warnings, seq) ==
    write_packet("ok",
                 << OK_PACKET >> \o write_len_int(affected_rows)
                     \o write_len_int(last_insert_id)
                     \o U16LE(flags) \o U16LE(warnings),
                 seq)

\* Packets::write_ok_packet_with_eof_header (packets.rs 283-303)
write_ok_packet_with_eof_header(affected_rows, last_insert_id, flags, warnings, seq) ==
    write_packet("ok_eof",
                 << EOF_PACKET >> \o write_len_int(affected_rows)
                     \o write_len_int(last_insert_id)
                     \o U16LE(flags) \o U16LE(warnings),
                 seq)

\* Packets::write_eof_packet (packets.rs 325-331): straight to the stream
write_eof_packet(flags, warnings, seq) ==
    Out(<< Entry("eof", FALSE, << >>,
                 << EOF_PACKET >> \o U16LE(warnings) \o U16LE(flags)) >>,
        seq)

\* Packets::write_err_packet (packets.rs 333-351); every caller passes a 5-byte state
write_err_packet(err_code, sql_state, err_msg, seq) ==
    LET state == IF sql_state = << >> THEN SSUnknownSQLState ELSE sql_state IN
    write_packet("err",
                 << ERR_PACKET >> \o U16LE(err_code) \o << 35 >> \o state \o err_msg,
                 seq)

\* Packets::write_err_packet_from_err (packets.rs 275-281): "Unknown error"
write_err_packet_from_err(seq) ==
    write_err_packet(ERUnknownError, SSUnknownSQLState,
                     << 85, 110, 107, 110, 111, 119, 110, 32, 101, 114, 114, 111, 114 >>,
                     seq)

\* Packets::write_end_result (packets.rs 305-322)
write_end_result(more_, affected_rows, last_insert_id, warnings, cap, status, seq) ==
    LET flags == IF more_ THEN SetBit(status, SERVER_MORE_RESULTS_EXISTS) ELSE status IN
    IF ~HasBit(cap, CapabilityClientDeprecateEOF)
    THEN write_eof_packet(flags, warnings, seq)
    ELSE write_ok_packet_with_eof_header(affected_rows, last_insert_id, flags, warnings, seq)

----------------------------------------------------------------------------
(* The type table (sql_type/mod.rs 148-224): internal type -> (wire type,  *)
(* implied flags).                                                         *)

TYPE_TO_MYSQL ==
    257 :> << 1, 0 >> @@ 770 :> << 1, 32 >> @@ 259 :> << 2, 0 >> @@
    772 :> << 2, 32 >> @@ 263 :> << 3, 0 >> @@ 776 :> << 3, 32 >> @@
    1035 :> << 4, 0 >> @@ 1036 :> << 5, 0 >> @@ 0 :> << 6, 128 >> @@
    2061 :> << 7, 0 >> @@ 265 :> << 8, 0 >> @@ 778 :> << 8, 32 >> @@
    261 :> << 9, 0 >> @@ 774 :> << 9, 32 >> @@ 2062 :> << 10, 128 >> @@
    2063 :> << 11, 128 >> @@ 2064 :> << 12, 128 >> @@ 785 :> << 13, 32 >> @@
    2073 :> << 16, 32 >> @@ 2078 :> << 245, 0 >> @@ 18 :> << 246, 0 >> @@
    6163 :> << 252, 0 >> @@ 10260 :> << 252, 128 >> @@ 6165 :> << 253, 0 >> @@
    10262 :> << 253, 128 >> @@ 6167 :> << 254, 0 >> @@ 10264 :> << 254, 128 >> @@
    2074 :> << 254, 256 >> @@ 2075 :> << 254, 2048 >> @@ 2077 :> << 255, 0 >>

\* type_to_mysql panics on a type the table does not hold
TypeKnown(typ) == typ \in DOMAIN TYPE_TO_MYSQL
type_to_mysql(typ) == TYPE_TO_MYSQL[typ]

\* Value::is_null (sql_type/mod.rs 141-145)
is_null(val) == val.typ = MysqlNullType

----------------------------------------------------------------------------
(* Result-set writers (packets.rs 196-273).                                *)

\* Packets::write_column_definition (packets.rs 214-248): the bytes of one definition
write_column_definition(field) ==
    LET tf == type_to_mysql(field.typ)
        flags == IF field.flags # 0 THEN field.flags ELSE tf[2]
    IN  write_len_str(<< 100, 101, 102 >>)
        \o write_len_str(field.database)
        \o write_len_str(field.table)
        \o write_len_str(field.org_table)
        \o write_len_str(field.name)
        \o write_len_str(field.org_name)
        \o << 12 >>
        \o U16LE(field.charset)
        \o U32LE(field.column_len)
        \o U8(tf[1])
        \o U16LE(flags)
        \o U8(field.decimals)
        \o U16LE(0)

\* the loop of write_fields over the fields: each definition goes to the stream as it is
RECURSIVE write_field_columns(_)
write_field_columns(fields) ==
    IF fields = << >> THEN << >>
    ELSE << Entry("column_definition", FALSE, << >>, write_column_definition(Head(fields))) >>
         \o write_field_columns(Tail(fields))

write_fields_always_eof(result, cap, status, seq) ==
    LET cols == write_field_columns(result.fields)
        e == write_eof_packet(status, 0, seq)
    IN  Out(cols \o e.entries, e.seq)

\* Packets::write_fields (packets.rs 197-212).  The buffer that receives the
\* length-encoded field count is dropped at the end of the routine unwritten.
write_fields(result, cap, status, seq) ==
    LET cols == write_field_columns(result.fields) IN
    IF ~HasBit(cap, CapabilityClientDeprecateEOF)
    THEN LET e == write_eof_packet(status, 0, seq) IN Out(cols \o e.entries, e.seq)
    ELSE Out(cols, seq)

\* the bytes of one row
RECURSIVE row_bytes(_)
row_bytes(row) ==
    IF row = << >> THEN << >>
    ELSE (IF is_null(Head(row)) THEN << 251 >>
          ELSE write_len_int(Len(Head(row).val)) \o Head(row).val)
         \o row_bytes(Tail(row))

\* Packets::write_row (packets.rs 258-273)
write_row(row) == Entry("row", FALSE, << >>, row_bytes(row))

\* Packets::write_rows (packets.rs 251-256)
RECURSIVE write_rows(_)
write_rows(rows) ==
    IF rows = << >> THEN << >> ELSE << write_row(Head(rows)) >> \o write_rows(Tail(rows))

----------------------------------------------------------------------------
(* Command payload parsing (packets.rs 546-569).                           *)

\* String::from_utf8 succeeds: the bytes are well-formed UTF-8
RECURSIVE ValidUtf8(_)
ValidUtf8(b) ==
    IF b = << >> THEN TRUE
    ELSE LET c == b[1]
             Cont(i) == i <= Len(b) /\ b[i] >= 128 /\ b[i] <= 191
         IN  IF c < 128 THEN ValidUtf8(Tail(b))
             ELSE IF c >= 194 /\ c <= 223
                  THEN Cont(2) /\ ValidUtf8(SubSeq(b, 3, Len(b)))
             ELSE IF c >= 224 /\ c <= 239
                  THEN Cont(2) /\ Cont(3)
                       /\ (c = 224 => b[2] >= 160)
                       /\ (c = 237 => b[2] <= 159)
                       /\ ValidUtf8(SubSeq(b, 4, Len(b)))
             ELSE IF c >= 240 /\ c <= 244
                  THEN Cont(2) /\ Cont(3) /\ Cont(4)
                       /\ (c = 240 => b[2] >= 144)
                       /\ (c = 244 => b[2] <= 143)
                       /\ ValidUtf8(SubSeq(b, 5, Len(b)))
             ELSE FALSE

\* trim_packet_type (packets.rs 554-557): data[1..] as a string, a panic when not UTF-8
trim_packet_type(data) == SubSeq(data, 2, Len(data))
parse_com_init_db(data) == trim_packet_type(data)
parse_com_query(data) == trim_packet_type(data)

\* parse_set_option (packets.rs 565-569): the u16 after the command byte
parse_set_option(data) ==
    IF Len(data) < 3 THEN [ok |-> FALSE, n |-> 0]
    ELSE [ok |-> TRUE, n |-> data[2] + data[3] * 256]

\* impl From<u64> for PacketType (constants.rs 254-294): defined for 0..0x1f, else a panic
PacketTypeKnown(pt) == pt <= 31

PacketTypeName ==
    0 :> << 67, 79, 77, 95, 83, 76, 69, 69, 80 >> @@
    1 :> << 67, 79, 77, 95, 81, 85, 73, 84 >> @@
    2 :> << 67, 79, 77, 95, 73, 78, 73, 84, 95, 68, 66 >> @@
    3 :> << 67, 79, 77, 95, 81, 85, 69, 82, 89 >> @@
    4 :> << 67, 79, 77, 95, 70, 73, 69, 76, 68, 95, 76, 73, 83, 84 >> @@
    5 :> << 67, 79, 77, 95, 67, 82, 69, 65, 84, 69, 95, 68, 66 >> @@
    6 :> << 67, 79, 77, 95, 68, 82, 79, 80, 95, 68, 66 >> @@
    7 :> << 67, 79, 77, 95, 82, 69, 70, 82, 69, 83, 72 >> @@
    8 :> << 67, 79, 77, 95, 83, 72, 85, 84, 68, 79, 87, 78 >> @@
    9 :> << 67, 79, 77, 95, 83, 84, 65, 84, 73, 83, 84, 73, 67, 83 >> @@
    10 :> << 67, 79, 77, 95, 80, 82, 79, 67, 69, 83, 83, 95, 73, 78, 70, 79 >> @@
    11 :> << 67, 79, 77, 95, 67, 79, 78, 78, 69, 67, 84 >> @@
    12 :> << 67, 79, 77, 95, 80, 82, 79, 67, 69, 83, 83, 95, 75, 73, 76, 76 >> @@
    13 :> << 67, 79, 77, 95, 68, 69, 66, 85, 71 >> @@
    14 :> << 67, 79, 77, 95, 80, 73, 78, 71 >> @@
    15 :> << 67, 79, 77, 95, 84, 73, 77, 69 >> @@
    16 :> << 67, 79, 77, 95, 68, 69, 76, 65, 89, 69, 68, 95, 73, 78, 83, 69, 82, 84 >> @@
    17 :> << 67, 79, 77, 95, 67, 72, 65, 78, 71, 69, 95, 85, 83, 69, 82 >> @@
    18 :> << 67, 79, 77, 95, 66, 73, 78, 76, 79, 71, 95, 68, 85, 77, 80 >> @@
    19 :> << 67, 79, 77, 95, 84, 65, 66, 76, 69, 95, 68, 85, 77, 80 >> @@
    20 :> << 67, 79, 77, 95, 67, 79, 78, 78, 69, 67, 84, 95, 79, 85, 84 >> @@
    21 :> << 67, 79, 77, 95, 82, 69, 71, 73, 83, 84, 69, 82, 95, 83, 76, 65, 86, 69 >> @@
    22 :> << 67, 79, 77, 95, 83, 84, 77, 84, 95, 80, 82, 69, 80, 65, 82, 69 >> @@
    23 :> << 67, 79, 77, 95, 83, 84, 77, 84, 95, 69, 88, 69, 67, 85, 84, 69 >> @@
    24 :> << 67, 79, 77, 95, 83, 84, 77, 84, 95, 83, 69, 78, 68, 95, 76, 79, 78, 71,
             95, 68, 65, 84, 65 >> @@
    25 :> << 67, 79, 77, 95, 83, 84, 77, 84, 95, 67, 76, 79, 83, 69 >> @@
    26 :> << 67, 79, 77, 95, 83, 84, 77, 84, 95, 82, 69, 83, 69, 84 >> @@
    27 :> << 67, 79, 77, 95, 83, 69, 84, 95, 79, 80, 84, 73, 79, 78 >> @@
    28 :> << 67, 79, 77, 95, 83, 84, 77, 84, 95, 70, 69, 84, 67, 72 >> @@
    29 :> << 67, 79, 77, 95, 68, 65, 69, 77, 79, 78 >> @@
    30 :> << 67, 79, 77, 95, 66, 73, 78, 76, 79, 71, 95, 68, 85, 77, 80, 95, 71, 84,
             73, 68 >> @@
    31 :> << 67, 79, 77, 95, 82, 69, 83, 69, 84, 95, 67, 79, 78, 78, 69, 67, 84, 73,
             79, 78 >>

----------------------------------------------------------------------------
(* Inputs.  The client's packets, the handler's results and the arguments  *)
(* of the caller are drawn from these sets.                                *)

\* callback invocations a handler makes in one query
MaxCalls == 3

Field(name, typ, flags) ==
    [name |-> name, typ |-> typ, table |-> << 116 >>, org_table |-> << 116 >>,
     database |-> << 100, 98 >>, org_name |-> name, column_len |-> 11,
     charset |-> 33, decimals |-> 0, flags |-> flags]

FieldC == Field(<< 99 >>, MysqlInt32, 0)           \* "c", Int32
FieldD == Field(<< 100 >>, MysqlVarchar, 128)      \* "d", Varchar, flags given
FieldBad == Field(<< 101 >>, 28, 0)                \* "e", Tuple: not in the type table

Value7 == [typ |-> MysqlInt32, val |-> << 55 >>]   \* "7"
ValueNull == [typ |-> MysqlNullType, val |-> << >>]

SqlResult(fields, affected_rows, insert_id, rows) ==
    [fields |-> fields, affected_rows |-> affected_rows, insert_id |-> insert_id,
     rows |-> rows]

\* no result passed yet
NoResult == SqlResult(<< >>, 0, 0, << >>)

\* results a handler passes to the callback: affected-rows results (one with counts
\* that need the longer length encodings), field lists (one with a row attached,
\* one with a type the table lacks) and a segment of rows
SqlResults ==
    { SqlResult(<< >>, 12, 34, << >>),
      SqlResult(<< FieldC >>, 0, 0, << >>),
      SqlResult(<< FieldC, FieldD >>, 0, 0, << << Value7, ValueNull >> >>),
      SqlResult(<< FieldBad >>, 0, 0, << >>),
      SqlResult(<< >>, 0, 0, << << Value7, ValueNull >>, << ValueNull, Value7 >> >>),
      SqlResult(<< >>, 300, 70000, << >>) }

\* command payloads a client sends
CmdPayloads ==
    { << >>, << 1 >>, << 2, 100, 98 >>, << 2, 255 >>, << 3, 113 >>, << 3, 255 >>,
      << 14 >>, << 27, 0, 0 >>, << 27, 1, 0 >>, << 27, 2, 0 >>, << 27, 0 >>,
      << 22 >>, << 23 >>, << 25 >>, << 26 >>, << 0 >>, << 4 >>, << 31 >>,
      << 32 >>, << 255 >> }

\* sequence bytes a client puts in a header
SeqBytes == { 0, 1, 2, 255 }

Packet(len, seq, body) == [hdr |-> U24LE(len) \o << seq >>, body |-> body]

\* what the stream holds when a command is read: nothing, a cut header, a packet whose
\* body is complete or one byte short, or a header announcing the largest length
ClientStreams ==
    { << >>, << [hdr |-> << 1, 0, 0 >>, body |-> << >>] >> }
    \cup { << Packet(Len(p), 0, p) >> : p \in CmdPayloads }
    \cup { << Packet(Len(p), s, p) >> : p \in { << 14 >>, << 3, 113 >> }, s \in SeqBytes }
    \cup { << Packet(Len(p) + 1, 0, p) >> : p \in { << >>, << 14 >>, << 3, 113 >> } }
    \cup { << Packet(MAX_PACKET_SIZE, 0, << 3, 113 >>) >> }

\* the capability and status flags of the connection, which its worker passes to
\* handle_next_command
CapabilitySet ==
    { 0, CapabilityClientDeprecateEOF, CapabilityClientMultiStatements,
      CapabilityClientDeprecateEOF + CapabilityClientMultiStatements }

StatusSet == { SERVER_STATUS_AUTOCOMMIT,
               SERVER_STATUS_AUTOCOMMIT + SERVER_MORE_RESULTS_EXISTS }

----------------------------------------------------------------------------
(* Packets::handle_next_command (packets.rs 412-503) up to the point where *)
(* it returns or hands control to the handler's com_query.                 *)

Ret(tag, err) == [tag |-> tag, err |-> err]
NoRet == Ret("None", "")

\* tag: "Ok" and "Err" are returns, "Panic" unwinds the worker, "Query" means
\* exec_query has called handler.com_query and the handler is running
Outcome(tag, err, entries, seq, cap) ==
    [tag |-> tag, err |-> err, entries |-> entries, seq |-> seq, cap |-> cap]

CycleStartSeq_kept(seq) == seq

\* packets.rs 418: the sequence_id the cycle starts with
CycleStartSeq(seq) == 0

\* the statement list with a query split in two under MULTI_STATEMENTS
Statements_split(query, cap) ==
    IF HasBit(cap, CapabilityClientMultiStatements) THEN << query, query >>
    ELSE << query >>

\* packets.rs 442-449: the statements of a query, the same on both branches
Statements(query, cap) ==
    IF HasBit(cap, CapabilityClientMultiStatements) THEN << query >> ELSE << query >>

\* packets.rs 454
MoreOf(index, length) == index # length - 1

\* packets.rs 458-486
ComSetOption(data, cap, seq) ==
    LET operation == parse_set_option(data) IN
    IF operation.ok
    THEN IF operation.n = 0
         THEN Outcome("Ok", "", << >>, seq, SetBit(cap, CapabilityClientMultiStatements))
         ELSE IF operation.n = 1
         THEN Outcome("Ok", "", << >>, seq, ClearBit(cap, CapabilityClientMultiStatements))
         ELSE LET w == write_err_packet(ERUnknownComError, SSUnknownComError,
                           << 85, 110, 107, 110, 111, 119, 110, 32, 115, 101, 116, 32,
                              111, 112, 116, 105, 111, 110 >>, seq)
              IN  Outcome("Ok", "", w.entries, w.seq, cap)
    ELSE LET w == write_err_packet(ERUnknownComError, SSUnknownComError,
                      << 69, 114, 114, 111, 114, 32, 112, 97, 114, 115, 105, 110, 103,
                         32, 115, 101, 116, 32, 111, 112, 116, 105, 111, 110 >>, seq)
         IN  Outcome("Ok", "", w.entries, w.seq, cap)

\* packets.rs 423-502: the match on the command byte
dispatch(data, status, cap, seq) ==
    IF data = << >> THEN Outcome("Panic", "index out of bounds", << >>, seq, cap)
    ELSE LET pt == data[1] IN
    IF ~PacketTypeKnown(pt) THEN Outcome("Panic", "Unknown packet type", << >>, seq, cap)
    ELSE IF pt = 1 THEN Outcome("Err", "ComQuit", << >>, seq, cap)
    ELSE IF pt = 2
    THEN IF ~ValidUtf8(parse_com_init_db(data))
         THEN Outcome("Panic", "from_utf8", << >>, seq, cap)
         ELSE LET w == write_ok_packet(0, 0, status, 0, seq)
              IN  Outcome("Ok", "", w.entries, w.seq, cap)
    ELSE IF pt = 14
    THEN LET w == write_ok_packet(0, 0, status, 0, seq)
         IN  Outcome("Ok", "", w.entries, w.seq, cap)
    ELSE IF pt = 3
    THEN IF ~ValidUtf8(parse_com_query(data))
         THEN Outcome("Panic", "from_utf8", << >>, seq, cap)
         ELSE Outcome("Query", "", << >>, seq, cap)
    ELSE IF pt = 27 THEN ComSetOption(data, cap, seq)
    ELSE IF pt \in { 22, 23, 26, 25 } THEN Outcome("Ok", "", << >>, seq, cap)
    ELSE LET w == write_err_packet(ERUnknownComError, SSUnknownComError,
                      << 85, 110, 107, 110, 111, 119, 110, 32, 99, 111, 109, 109, 97,
                         110, 100, 58, 32 >> \o PacketTypeName[pt], seq)
         IN  Outcome("Ok", "", w.entries, w.seq, cap)

handle_next_command_quit_ack(seq, stream, status, cap) ==
    LET r == read_ephemeral_packet(CycleStartSeq(seq), stream) IN
    IF ~r.ok THEN Outcome("Err", r.err, << >>, r.seq, cap)
    ELSE IF r.data # << >> /\ r.data[1] = 1
    THEN LET w == write_ok_packet(0, 0, status, 0, r.seq)
         IN  Outcome("Err", "ComQuit", w.entries, w.seq, cap)
    ELSE dispatch(r.data, status, cap, r.seq)

handle_next_command_err_reply(seq, stream, status, cap) ==
    LET r == read_ephemeral_packet(CycleStartSeq(seq), stream) IN
    IF ~r.ok
    THEN LET w == write_err_packet(ERUnknownError, SSUnknownSQLState, << >>, r.seq)
         IN  Outcome("Ok", "", w.entries, w.seq, cap)
    ELSE dispatch(r.data, status, cap, r.seq)

\* packets.rs 412-423: reset, read the command, dispatch
handle_next_command(seq, stream, status, cap) ==
    LET r == read_ephemeral_packet(CycleStartSeq(seq), stream) IN
    IF ~r.ok THEN Outcome("Err", r.err, << >>, r.seq, cap)
    ELSE dispatch(r.data, status, cap, r.seq)

----------------------------------------------------------------------------
(* Packets::exec_query (packets.rs 505-543).                               *)

CbOut(tag, entries, seq, fs, sfin) ==
    [tag |-> tag, entries |-> entries, seq |-> seq, field_sent |-> fs,
     send_finished |-> sfin]

\* the fields before the first one whose type the table does not hold
RECURSIVE KnownPrefix(_)
KnownPrefix(fields) ==
    IF fields = << >> \/ ~TypeKnown(Head(fields).typ) THEN << >>
    ELSE << Head(fields) >> \o KnownPrefix(Tail(fields))

callback_by_segment(qr, fs, sfin, more_, cap, status, seq) ==
    LET flags == IF more_ THEN SetBit(status, SERVER_MORE_RESULTS_EXISTS) ELSE status IN
    IF sfin THEN CbOut("Err", << >>, seq, fs, sfin)
    ELSE IF qr.fields = << >> /\ qr.rows = << >>
    THEN LET w == write_ok_packet(qr.affected_rows, qr.insert_id, flags, 0, seq)
         IN  CbOut("Ok", w.entries, w.seq, TRUE, TRUE)
    ELSE IF qr.fields # << >>
    THEN LET w == write_fields([qr EXCEPT !.fields = KnownPrefix(qr.fields)],
                               cap, status, seq)
         IN  CbOut("Ok", w.entries, w.seq, TRUE, FALSE)
    ELSE CbOut("Ok", write_rows(qr.rows), seq, fs, sfin)

callback_no_failsafe(qr, fs, sfin, more_, cap, status, seq) ==
    LET flags == IF more_ THEN SetBit(status, SERVER_MORE_RESULTS_EXISTS) ELSE status IN
    IF ~fs
    THEN IF qr.fields = << >>
         THEN LET w == write_ok_packet(qr.affected_rows, qr.insert_id, flags, 0, seq)
              IN  CbOut("Ok", w.entries, w.seq, TRUE, TRUE)
         ELSE IF KnownPrefix(qr.fields) # qr.fields
         THEN CbOut("Panic", write_field_columns(KnownPrefix(qr.fields)), seq, TRUE, FALSE)
         ELSE LET w == write_fields(qr, cap, status, seq)
              IN  CbOut("Ok", w.entries, w.seq, TRUE, FALSE)
    ELSE CbOut("Ok", write_rows(qr.rows), seq, fs, sfin)

\* packets.rs 513-533: one invocation of the callback with the result qr
callback(qr, fs, sfin, more_, cap, status, seq) ==
    LET flags == IF more_ THEN SetBit(status, SERVER_MORE_RESULTS_EXISTS) ELSE status IN
    IF sfin THEN CbOut("Err", << >>, seq, fs, sfin)
    ELSE IF ~fs
    THEN IF qr.fields = << >>
         THEN LET w == write_ok_packet(qr.affected_rows, qr.insert_id, flags, 0, seq)
              IN  CbOut("Ok", w.entries, w.seq, TRUE, TRUE)
         ELSE IF KnownPrefix(qr.fields) # qr.fields
         THEN CbOut("Panic", write_field_columns(KnownPrefix(qr.fields)), seq, TRUE, FALSE)
         ELSE LET w == write_fields(qr, cap, status, seq)
              IN  CbOut("Ok", w.entries, w.seq, TRUE, FALSE)
    ELSE CbOut("Ok", write_rows(qr.rows), seq, fs, sfin)

exec_query_end_unguarded(hr, fs, sfin, more_, cap, status, seq) ==
    IF hr = "Err" THEN Outcome("Err", "Io", << >>, seq, cap)
    ELSE IF fs
    THEN LET w == write_end_result(more_, 0, 0, 0, cap, status, seq)
         IN  Outcome("Ok", "", w.entries, w.seq, cap)
    ELSE Outcome("Ok", "", << >>, seq, cap)

\* packets.rs 533-542: after com_query has returned hr ("Ok" or "Err")
exec_query_end(hr, fs, sfin, more_, cap, status, seq) ==
    IF hr = "Err" THEN Outcome("Err", "Io", << >>, seq, cap)
    ELSE IF fs /\ ~sfin
    THEN LET w == write_end_result(more_, 0, 0, 0, cap, status, seq)
         IN  Outcome("Ok", "", w.entries, w.seq, cap)
    ELSE Outcome("Ok", "", << >>, seq, cap)

----------------------------------------------------------------------------
(* The framer driven command by command.  The stream's writes succeed.     *)

\* Auth::new (auth.rs 52-62)
AuthNew ==
    [character_set |-> 0, max_packet_size |-> 0, capability_flags |-> 0,
     auth_response |-> << >>, auth_method |-> << >>, database |-> << >>,
     user |-> << >>]

\* Greeting::default (greeting.rs 15-23)
GreetingDefault ==
    [status_flag |-> 0, capability |-> 0, connection_id |-> 0,
     server_version |-> << >>, auth_plugin_name |-> << >>, salt |-> << >>]

\* the header bytes the stream delivers to the first read
HeaderOf(stream) == IF stream = << >> THEN << >> ELSE Head(stream).hdr

NoHeader == [ok |-> FALSE, err |-> "None", len |-> 0, seq |-> 0]

\* no client has parsed a handshake: Greeting::default (greeting.rs 15-23) and no
\* result
NoGreeting == [tag |-> "None", err |-> "", greeting |-> GreetingDefault]

\* Listener::new_tcp_listener (listener.rs 37-45): the counter starts at 0
ListenerNew == [connection_id |-> 0]

\* no client has built a handshake response
NoClient == [round |-> 0, kind |-> "none", capability |-> 0, charset |-> 0,
             user |-> << >>, auth_resp |-> << >>, database |-> << >>]

\* Packets::new (packets.rs 64-71) for the framer at the other end of a stream, with
\* what its last read returned
PeerNew == [op |-> "none", sequence_id |-> 0, tag |-> "None", err |-> "", data |-> << >>]

\* what the command cycle and the handshake never touch.  In them the counter stays
\* far below 255 (CounterBelowOverflow), so the build's overflow checks do not act.
frameVars == << peer, overflow_checks, client, auth_before, client_greeting,
               handler_calls, len_value, len_size,
           listener, conns >>

\* holds in the command cycle and in the handshake
CounterBelowOverflow == sequence_id < 255

\* Packets::new and set_stream (packets.rs 64-75), on a connection whose negotiated
\* capability and status flags are drawn from the input sets
Init ==
    /\ sequence_id = 0
    /\ capability = 0
    /\ status_flags = 0
    /\ written = << >>
    /\ pc = "idle"
    /\ ret = NoRet
    /\ field_sent = FALSE
    /\ send_finished = FALSE
    /\ more = FALSE
    /\ cb_ret = "None"
    /\ calls = 0
    /\ entry_seq = 0
    /\ op = "none"
    /\ given_fields = << >>
    /\ given_first = NoResult
    /\ given_rows = << >>
    /\ cmd = << >>
    /\ read_at = 0
    /\ hdr_ret = NoHeader
    /\ payload = << >>
    /\ hret = "None"
    /\ finish = << >>
    /\ auth \in { [AuthNew EXCEPT !.capability_flags = c] : c \in CapabilitySet }
    /\ greeting \in { [GreetingDefault EXCEPT !.status_flag = s] : s \in StatusSet }
    /\ peer = PeerNew
    /\ overflow_checks = FALSE
    /\ client = NoClient
    /\ auth_before = AuthNew
    /\ client_greeting = NoGreeting
    /\ handler_calls = << >>
    /\ len_value = 0
    /\ len_size = 0
    /\ listener = ListenerNew
    /\ conns = << >>

\* the worker invokes handle_next_command(handler, status, cap) with the connection's
\* flags while stream is what the client has sent
HandleNextCommand(stream) ==
    /\ pc = "idle"
    /\ LET status == greeting.status_flag
           cap == auth.capability_flags
           o == handle_next_command(sequence_id, stream, status, cap) IN
       /\ sequence_id' = o.seq
       /\ capability' = o.cap
       /\ status_flags' = status
       /\ written' = o.entries
       /\ pc' = CASE o.tag = "Query" -> "in_handler"
                  [] o.tag = "Panic" -> "panicked"
                  [] OTHER -> "idle"
       /\ ret' = IF o.tag = "Query" THEN NoRet ELSE Ret(o.tag, o.err)
       /\ more' = IF o.tag = "Query"
                  THEN MoreOf(0, Len(Statements(parse_com_query(Head(stream).body), cap)))
                  ELSE FALSE
    /\ field_sent' = FALSE
    /\ send_finished' = FALSE
    /\ cb_ret' = "None"
    /\ calls' = 0
    /\ entry_seq' = sequence_id
    /\ op' = "handle_next_command"
    /\ given_fields' = << >>
    /\ given_first' = NoResult
    /\ given_rows' = << >>
    /\ cmd' = stream
    /\ read_at' = CycleStartSeq(sequence_id)
    /\ hdr_ret' = read_header(CycleStartSeq(sequence_id), HeaderOf(stream))
    /\ payload' = read_ephemeral_packet(CycleStartSeq(sequence_id), stream).data
    /\ hret' = "None"
    /\ finish' = << >>
    /\ UNCHANGED << auth, greeting >>
    /\ UNCHANGED frameVars

\* a caller invokes read_ephemeral_packet itself, once between commands
ReadEphemeralPacket(stream) ==
    /\ pc = "idle"
    /\ op \in { "none", "handle_next_command" }
    /\ LET r == read_ephemeral_packet(sequence_id, stream) IN
       /\ sequence_id' = r.seq
       /\ ret' = IF r.ok THEN Ret("Ok", "") ELSE Ret("Err", r.err)
       /\ payload' = r.data
    /\ written' = << >>
    /\ more' = FALSE
    /\ field_sent' = FALSE
    /\ send_finished' = FALSE
    /\ cb_ret' = "None"
    /\ calls' = 0
    /\ entry_seq' = sequence_id
    /\ op' = "read_ephemeral_packet"
    /\ given_fields' = << >>
    /\ given_first' = NoResult
    /\ given_rows' = << >>
    /\ cmd' = stream
    /\ read_at' = sequence_id
    /\ hdr_ret' = read_header(sequence_id, HeaderOf(stream))
    /\ hret' = "None"
    /\ finish' = << >>
    /\ UNCHANGED << capability, status_flags, pc, auth, greeting >>
    /\ UNCHANGED frameVars

\* a caller invokes exec_query(handler, sql, more) itself, once between commands
ExecQuery(m) ==
    /\ pc = "idle"
    /\ op \in { "none", "handle_next_command" }
    /\ pc' = "in_handler"
    /\ more' = m
    /\ written' = << >>
    /\ ret' = NoRet
    /\ field_sent' = FALSE
    /\ send_finished' = FALSE
    /\ cb_ret' = "None"
    /\ calls' = 0
    /\ entry_seq' = sequence_id
    /\ op' = "exec_query"
    /\ given_fields' = << >>
    /\ given_first' = NoResult
    /\ given_rows' = << >>
    /\ cmd' = << >>
    /\ read_at' = 0
    /\ hdr_ret' = NoHeader
    /\ payload' = << >>
    /\ hret' = "None"
    /\ finish' = << >>
    /\ UNCHANGED << sequence_id, capability, status_flags, auth, greeting >>
    /\ UNCHANGED frameVars

\* the handler, inside com_query, invokes the callback with qr
Callback(qr) ==
    /\ pc = "in_handler"
    /\ calls < MaxCalls
    /\ LET c == callback(qr, field_sent, send_finished, more, capability,
                         status_flags, sequence_id) IN
       /\ sequence_id' = c.seq
       /\ written' = written \o c.entries
       /\ field_sent' = c.field_sent
       /\ send_finished' = c.send_finished
       /\ cb_ret' = c.tag
       /\ pc' = IF c.tag = "Panic" THEN "panicked" ELSE "in_handler"
       /\ ret' = IF c.tag = "Panic" THEN Ret("Panic", "Unexpected") ELSE ret
    /\ calls' = calls + 1
    /\ given_fields' = IF calls = 0 THEN qr.fields ELSE given_fields
    /\ given_first' = IF calls = 0 THEN qr ELSE given_first
    /\ given_rows' = IF calls > 0 /\ given_fields # << >>
                     THEN given_rows \o qr.rows ELSE given_rows
    /\ UNCHANGED << capability, status_flags, more, entry_seq, op, cmd, read_at, hdr_ret,
                    payload, hret, finish, auth, greeting >>
    /\ UNCHANGED frameVars

\* the handler's com_query returns hr; exec_query and its caller finish
HandlerReturn(hr) ==
    /\ pc = "in_handler"
    /\ LET o == exec_query_end(hr, field_sent, send_finished, more, capability,
                               status_flags, sequence_id) IN
       /\ sequence_id' = o.seq
       /\ written' = written \o o.entries
       /\ ret' = Ret(o.tag, o.err)
       /\ finish' = o.entries
    /\ hret' = hr
    /\ pc' = "idle"
    /\ UNCHANGED << capability, status_flags, field_sent, send_finished, more, cb_ret,
                    calls, entry_seq, op, given_fields, given_first, given_rows, cmd,
                    read_at, hdr_ret, payload, auth, greeting >>
    /\ UNCHANGED frameVars

\* arguments a caller gives to the public write routines
OkArguments ==
    { [affected_rows |-> 0, last_insert_id |-> 0, flags |-> 2, warnings |-> 0],
      [affected_rows |-> 1, last_insert_id |-> 251, flags |-> 10, warnings |-> 1] }

ErrArguments ==
    { [err_code |-> ERUnknownComError, sql_state |-> SSUnknownComError,
       err_msg |-> << 120 >>],
      [err_code |-> ERUnknownError, sql_state |-> << >>, err_msg |-> << >>],
      [err_code |-> ERUnknownError, sql_state |-> << 52, 50 >>, err_msg |-> << 120 >>] }

PacketArguments == { << >>, << 1, 2, 3 >> }

\* a caller invokes one of the public write routines itself, once between commands:
\* entries is what the routine wrote, seq the sequence_id it left and r its outcome
PublicWrite(name, entries, seq, r) ==
    /\ pc = "idle"
    /\ op \in { "none", "handle_next_command" }
    /\ sequence_id' = seq
    /\ written' = entries
    /\ ret' = r
    /\ pc' = IF r.tag = "Panic" THEN "panicked" ELSE pc
    /\ op' = name
    /\ more' = FALSE
    /\ field_sent' = FALSE
    /\ send_finished' = FALSE
    /\ cb_ret' = "None"
    /\ calls' = 0
    /\ entry_seq' = sequence_id
    /\ given_fields' = << >>
    /\ given_first' = NoResult
    /\ given_rows' = << >>
    /\ cmd' = << >>
    /\ read_at' = 0
    /\ hdr_ret' = NoHeader
    /\ payload' = << >>
    /\ hret' = "None"
    /\ finish' = << >>
    /\ UNCHANGED << capability, status_flags, auth, greeting >>
    /\ UNCHANGED frameVars

\* packets.rs 275-281
WriteErrPacketFromErr ==
    LET w == write_err_packet_from_err(sequence_id) IN
    PublicWrite("write_err_packet_from_err", w.entries, w.seq, Ret("Ok", ""))

\* packets.rs 333-351: assert_eq!(sql_state.len(), 5) unwinds before anything is
\* written when the caller's state is neither empty nor of five bytes
WriteErrPacket(a) ==
    LET w == write_err_packet(a.err_code, a.sql_state, a.err_msg, sequence_id) IN
    IF Len(a.sql_state) \in { 0, 5 }
    THEN PublicWrite("write_err_packet", w.entries, w.seq, Ret("Ok", ""))
    ELSE PublicWrite("write_err_packet", << >>, sequence_id,
                     Ret("Panic", "assertion failed"))

\* packets.rs 353-373
WriteOkPacket(a) ==
    LET w == write_ok_packet(a.affected_rows, a.last_insert_id, a.flags, a.warnings,
                             sequence_id) IN
    PublicWrite("write_ok_packet", w.entries, w.seq, Ret("Ok", ""))

\* packets.rs 283-303
WriteOkPacketWithEofHeader(a) ==
    LET w == write_ok_packet_with_eof_header(a.affected_rows, a.last_insert_id, a.flags,
                                             a.warnings, sequence_id) IN
    PublicWrite("write_ok_packet_with_eof_header", w.entries, w.seq, Ret("Ok", ""))

\* packets.rs 325-331
WriteEofPacket(a) ==
    LET w == write_eof_packet(a.flags, a.warnings, sequence_id) IN
    PublicWrite("write_eof_packet", w.entries, w.seq, Ret("Ok", ""))

\* packets.rs 305-322
WriteEndResult(m, a) ==
    LET w == write_end_result(m, a.affected_rows, a.last_insert_id, a.warnings,
                              capability, status_flags, sequence_id) IN
    PublicWrite("write_end_result", w.entries, w.seq, Ret("Ok", ""))

\* packets.rs 375-410
WritePacketCall(data) ==
    LET w == write_packet("packet", data, sequence_id) IN
    PublicWrite("write_packet", w.entries, w.seq, Ret("Ok", ""))

\* a caller invokes read_ephemeral_packet_direct itself, once between commands
ReadEphemeralPacketDirect(stream) ==
    /\ pc = "idle"
    /\ op \in { "none", "handle_next_command" }
    /\ LET r == read_ephemeral_packet_direct(sequence_id, stream) IN
       /\ sequence_id' = r.seq
       /\ ret' = IF r.ok THEN Ret("Ok", "") ELSE Ret("Err", r.err)
       /\ payload' = r.data
    /\ written' = << >>
    /\ more' = FALSE
    /\ field_sent' = FALSE
    /\ send_finished' = FALSE
    /\ cb_ret' = "None"
    /\ calls' = 0
    /\ entry_seq' = sequence_id
    /\ op' = "read_ephemeral_packet_direct"
    /\ given_fields' = << >>
    /\ given_first' = NoResult
    /\ given_rows' = << >>
    /\ cmd' = stream
    /\ read_at' = sequence_id
    /\ hdr_ret' = read_header(sequence_id, HeaderOf(stream))
    /\ hret' = "None"
    /\ finish' = << >>
    /\ UNCHANGED << capability, status_flags, pc, auth, greeting >>
    /\ UNCHANGED frameVars

Next ==
    \/ \E stream \in ClientStreams : HandleNextCommand(stream)
    \/ \E stream \in ClientStreams : ReadEphemeralPacket(stream)
    \/ \E stream \in ClientStreams : ReadEphemeralPacketDirect(stream)
    \/ \E m \in BOOLEAN : ExecQuery(m)
    \/ \E qr \in SqlResults : Callback(qr)
    \/ \E hr \in { "Ok", "Err" } : HandlerReturn(hr)
    \/ WriteErrPacketFromErr
    \/ \E a \in ErrArguments : WriteErrPacket(a)
    \/ \E a \in OkArguments : WriteOkPacket(a)
    \/ \E a \in OkArguments : WriteOkPacketWithEofHeader(a)
    \/ \E a \in OkArguments : WriteEofPacket(a)
    \/ \E m \in BOOLEAN, a \in OkArguments : WriteEndResult(m, a)
    \/ \E data \in PacketArguments : WritePacketCall(data)

Spec == Init /\ [][Next]_vars

----------------------------------------------------------------------------
(* The handshake: Greeting (greeting.rs) and Auth (auth.rs).               *)

\* constants.rs 659-670
DEFAULT_SERVER_CAPABILITY ==
    CapabilityClientLongPassword + CapabilityClientLongFlag
    + CapabilityClientConnectWithDB + CapabilityClientProtocol41
    + CapabilityClientTransactions + CapabilityClientSecureConnection
    + CapabilityClientMultiStatements + CapabilityClientMultiResults
    + CapabilityClientPluginAuth + CapabilityClientPluginAuthLenencClientData
    + CapabilityClientDeprecateEOF + CapabilityClientConnAttr

\* constants.rs 650-657
DEFAULT_CLIENT_CAPABILITY ==
    CapabilityClientLongPassword + CapabilityClientLongFlag
    + CapabilityClientProtocol41 + CapabilityClientTransactions
    + CapabilityClientMultiStatements + CapabilityClientPluginAuth
    + CapabilityClientDeprecateEOF + CapabilityClientSecureConnection

\* constants.rs 672-675
DEFAULT_SALT ==
    << 119, 99, 106, 109, 97, 34, 35, 39,
       56, 38, 85, 88, 59, 93, 68, 120, 83, 115, 107, 65 >>

\* Greeting::new (greeting.rs 31-44); salt is what byte_rand drew, 20 bytes in 1..122
GreetingNew(connection_id, server_version, salt) ==
    [status_flag |-> SERVER_STATUS_AUTOCOMMIT, capability |-> DEFAULT_SERVER_CAPABILITY,
     connection_id |-> connection_id, server_version |-> server_version,
     auth_plugin_name |-> << >>, salt |-> salt]

\* Greeting::write_handshake_v10 (greeting.rs 56-91): the capability it leaves
handshake_capability(g, enable_tls) ==
    IF enable_tls THEN SetBit(g.capability, CapabilityClientSSL) ELSE g.capability

\* Greeting::write_handshake_v10 (greeting.rs 56-91): the payload it returns
write_handshake_v10(g, enable_tls) ==
    LET cap == handshake_capability(g, enable_tls) IN
    << PROTOCOL_VERSION >> \o g.server_version \o << 0 >>
        \o U32LE(g.connection_id)
        \o SubSeq(g.salt, 1, 8) \o << 0 >>
        \o U16LE(cap % 65536)
        \o << CHARACTER_SET_UTF8 >>
        \o U16LE(g.status_flag)
        \o U16LE(cap \div 65536)
        \o << 21 >>
        \o << 0, 0, 0, 0, 0, 0, 0, 0, 0, 0 >>
        \o SubSeq(g.salt, 9, Len(g.salt)) \o << 0 >>
        \o MYSQL_NATIVE_PASSWORD \o << 0 >>

\* u32 from four little-endian bytes at positions pos..pos+3 (byteorder read_u32)
ReadU32LE(b, pos) ==
    b[pos] + b[pos + 1] * 256 + b[pos + 2] * 65536 + b[pos + 3] * 16777216

\* the index of the first byte equal to byte at or after pos, 0 when there is none
FirstAt(b, byte, pos) ==
    LET hits == { i \in pos..Len(b) : b[i] = byte } IN
    IF hits = { } THEN 0 ELSE CHOOSE i \in hits : \A j \in hits : i <= j

\* ReadUntil::real_read_until (auth.rs 41-49) on a cursor at pos: everything up to
\* and including the delimiter (or the end) is appended to buf, then the last
\* byte of buf is removed
real_read_until(b, pos, byte, buf) ==
    LET hit == FirstAt(b, byte, pos)
        end == IF hit = 0 THEN Len(b) ELSE hit
        got == buf \o SubSeq(b, pos, end)
    IN  [buf |-> IF got = << >> THEN << >> ELSE SubSeq(got, 1, Len(got) - 1),
         pos |-> end + 1]

\* Read::read into buffer[..len] of a zeroed buffer (auth.rs 189-194, 204-209):
\* the bytes the cursor still holds, padded with zeros to len
read_padded(b, pos, len) ==
    [i \in 1..len |-> IF pos + i - 1 <= Len(b) THEN b[pos + i - 1] ELSE 0]

Min(x, y) == IF x < y THEN x ELSE y

AuthRet(ok, err, a) == [ok |-> ok, err |-> err, auth |-> a]

\* auth.rs 218-239: database, plugin name, default plugin
parse_handshake_tail(a, b, pos) ==
    LET d == IF HasBit(a.capability_flags, CapabilityClientConnectWithDB)
             THEN real_read_until(b, pos, 0, a.database)
             ELSE [buf |-> a.database, pos |-> pos]
        m == IF HasBit(a.capability_flags, CapabilityClientPluginAuth)
             THEN real_read_until(b, d.pos, 0, a.auth_method)
             ELSE [buf |-> a.auth_method, pos |-> d.pos]
    IN  AuthRet(TRUE, "",
                [a EXCEPT !.database = d.buf,
                          !.auth_method = IF m.buf = << >> THEN MYSQL_NATIVE_PASSWORD
                                          ELSE m.buf])

\* auth.rs 178-217: the auth response, in the form the capability flags select
parse_handshake_auth_response(a, b, pos) ==
    IF \/ HasBit(a.capability_flags, CapabilityClientPluginAuthLenencClientData)
       \/ HasBit(a.capability_flags, CapabilityClientSecureConnection)
    THEN IF pos > Len(b) THEN AuthRet(FALSE, "ReadAuthResponseLengthError", a)
         ELSE LET len == b[pos]
                  resp == read_padded(b, pos + 1, len)
              IN  parse_handshake_tail(
                      [a EXCEPT !.auth_response = a.auth_response \o resp],
                      b, pos + 1 + Min(len, Len(b) - pos))
    ELSE IF Len(b) - pos + 1 < 20 THEN AuthRet(FALSE, "Io", a)
         ELSE LET a1 == [a EXCEPT !.auth_response =
                                      a.auth_response \o SubSeq(b, pos, pos + 19)]
              IN  IF pos + 20 > Len(b) THEN AuthRet(FALSE, "ReadAuthResponseError", a1)
                  ELSE parse_handshake_tail(a1, b, pos + 21)

parse_client_flag_no_multi(a, b, first) ==
    IF Len(b) < 4 THEN AuthRet(FALSE, "ReadClientFlagError", a)
    ELSE
    LET client_flag == ReadU32LE(b, 1) IN
    IF ~HasBit(client_flag, CapabilityClientProtocol41)
    THEN AuthRet(FALSE, "ProtocolNotSupport", a)
    ELSE
    LET masked == (IF HasBit(client_flag, CapabilityClientDeprecateEOF)
                   THEN CapabilityClientDeprecateEOF ELSE 0)
                  + (IF HasBit(client_flag, CapabilityClientFoundRows)
                     THEN CapabilityClientFoundRows ELSE 0)
    IN  AuthRet(TRUE, "", [a EXCEPT !.capability_flags =
                                        IF first THEN masked ELSE client_flag])

parse_client_flag_assign_first(a, b, first) ==
    IF Len(b) < 4 THEN AuthRet(FALSE, "ReadClientFlagError", a)
    ELSE
    LET client_flag == ReadU32LE(b, 1)
        a1 == [a EXCEPT !.capability_flags = client_flag]
    IN  IF ~HasBit(client_flag, CapabilityClientProtocol41)
        THEN AuthRet(FALSE, "ProtocolNotSupport", a1)
        ELSE AuthRet(TRUE, "", a1)

\* auth.rs 132-153: the client flags and the capability they leave
parse_client_flag(a, b, first) ==
    IF Len(b) < 4 THEN AuthRet(FALSE, "ReadClientFlagError", a)
    ELSE
    LET client_flag == ReadU32LE(b, 1) IN
    IF ~HasBit(client_flag, CapabilityClientProtocol41)
    THEN AuthRet(FALSE, "ProtocolNotSupport", a)
    ELSE
    LET masked == (IF HasBit(client_flag, CapabilityClientDeprecateEOF)
                   THEN CapabilityClientDeprecateEOF ELSE 0)
                  + (IF HasBit(client_flag, CapabilityClientFoundRows)
                     THEN CapabilityClientFoundRows ELSE 0)
        flags0 == IF first THEN masked ELSE client_flag
        flags == IF HasBit(client_flag, CapabilityClientMultiStatements)
                 THEN SetBit(flags0, CapabilityClientMultiStatements) ELSE flags0
    IN  AuthRet(TRUE, "", [a EXCEPT !.capability_flags = flags])

\* the fixed fields with a trailer read that accepts fewer than 23 bytes
parse_fixed_fields_short_trailer(a, b) ==
    IF Len(b) < 8 THEN AuthRet(FALSE, "ReadMaxPacketSizeError", a)
    ELSE
    LET a2 == [a EXCEPT !.max_packet_size = ReadU32LE(b, 5)] IN
    IF Len(b) < 9 THEN AuthRet(FALSE, "ReadCharsetError", a2)
    ELSE AuthRet(TRUE, "", [a2 EXCEPT !.character_set = b[9]])

\* auth.rs 154-171: max_packet_size, the charset and the 23 reserved bytes
parse_fixed_fields(a, b) ==
    IF Len(b) < 8 THEN AuthRet(FALSE, "ReadMaxPacketSizeError", a)
    ELSE
    LET a2 == [a EXCEPT !.max_packet_size = ReadU32LE(b, 5)] IN
    IF Len(b) < 9 THEN AuthRet(FALSE, "ReadCharsetError", a2)
    ELSE
    LET a3 == [a2 EXCEPT !.character_set = b[9]] IN
    IF Len(b) < 32 THEN AuthRet(FALSE, "ReadZeroError", a3)
    ELSE AuthRet(TRUE, "", a3)

\* Auth::parse_client_handshake_packet (auth.rs 127-240)
parse_client_handshake_packet(a, b, first) ==
    LET f == parse_client_flag(a, b, first) IN
    IF ~f.ok THEN f
    ELSE
    LET x == parse_fixed_fields(f.auth, b) IN
    IF ~x.ok THEN x
    ELSE
    LET u == real_read_until(b, 33, 0, x.auth.user) IN
    parse_handshake_auth_response([x.auth EXCEPT !.user = u.buf], b, u.pos)

\* Auth::write_handshake_resp (auth.rs 84-125); auth_resp is what
\* gen_native_password(password, salt) returned: empty, or the 20-byte scramble
write_handshake_resp(capability_flag, charset, username, auth_resp, database) ==
    LET cf == IF database # << >>
              THEN SetBit(capability_flag, CapabilityClientConnectWithDB)
              ELSE ClearBit(capability_flag, CapabilityClientConnectWithDB)
    IN  U32LE(cf) \o U32LE(0) \o << charset >>
        \o [i \in 1..23 |-> 0]
        \o username \o << 0 >>
        \o (IF HasBit(cf, CapabilityClientSecureConnection)
            THEN << Len(auth_resp) % 256 >> \o auth_resp
            ELSE auth_resp \o << 0 >>)
        \o (IF HasBit(cf, CapabilityClientConnectWithDB)
            THEN database \o << 0 >> ELSE << >>)
        \o MYSQL_NATIVE_PASSWORD \o << 0 >>

----------------------------------------------------------------------------
(* One connection: Listener::accept spawns a worker that builds the        *)
(* Connection and runs Connection::handle (listener.rs 47-66,              *)
(* connection.rs 26-64).  The write of the greeting succeeds or fails.     *)

\* listener.rs 42: "5.7.0"
SERVER_VERSION == << 53, 46, 55, 46, 48 >>

\* connection ids the listener's counter hands out
ConnectionIds == { 0, 1, 258 }

\* salts byte_rand can draw
Salts == { DEFAULT_SALT, [i \in 1..20 |-> 1], [i \in 1..20 |-> 122] }

\* a scramble gen_native_password returns for a non-empty password
Scramble == [i \in 1..20 |-> 96 + i]

UserRoot == << 114, 111, 111, 116 >>
DatabaseDb == << 100, 98 >>

\* handshake responses a client builds with write_handshake_resp, one of them
\* without CLIENT_PROTOCOL_41, one without CLIENT_SECURE_CONNECTION
Responses ==
    { write_handshake_resp(DEFAULT_CLIENT_CAPABILITY, CHARACTER_SET_UTF8, UserRoot,
                           Scramble, << >>),
      write_handshake_resp(DEFAULT_CLIENT_CAPABILITY, CHARACTER_SET_UTF8, UserRoot,
                           << >>, DatabaseDb),
      write_handshake_resp(CapabilityClientProtocol41 + CapabilityClientPluginAuth,
                           CHARACTER_SET_UTF8, UserRoot, Scramble, DatabaseDb),
      write_handshake_resp(CapabilityClientLongPassword, CHARACTER_SET_UTF8, UserRoot,
                           Scramble, << >>) }

ResponseRoot ==
    write_handshake_resp(DEFAULT_CLIENT_CAPABILITY, CHARACTER_SET_UTF8, UserRoot,
                         Scramble, << >>)

\* lengths at which a response is cut: inside each fixed field and inside the rest
CutLengths == { 0, 3, 6, 8, 20, 32, 34, 40 }

\* what the stream holds when the response is read: nothing, a cut header, a
\* response under sequence byte 1, a cut response, a response under another
\* sequence byte, a body shorter than its header announces
HandshakeStreams ==
    { << >>, << [hdr |-> << 1, 0, 0 >>, body |-> << >>] >> }
    \cup { << Packet(Len(p), 1, p) >> : p \in Responses }
    \cup { << Packet(n, 1, SubSeq(ResponseRoot, 1, n)) >> : n \in CutLengths }
    \cup { << Packet(Len(ResponseRoot), q, ResponseRoot) >> : q \in { 0, 2, 255 } }
    \cup { << Packet(Len(ResponseRoot) + 1, 1, ResponseRoot) >> }

\* Connection::new (connection.rs 27-35) around Packets::new (packets.rs 64-71)
InitConn ==
    /\ sequence_id = 0
    /\ capability = 0
    /\ status_flags = 0
    /\ written = << >>
    /\ pc = "new"
    /\ ret = NoRet
    /\ field_sent = FALSE
    /\ send_finished = FALSE
    /\ more = FALSE
    /\ cb_ret = "None"
    /\ calls = 0
    /\ entry_seq = 0
    /\ op = "new"
    /\ given_fields = << >>
    /\ given_first = NoResult
    /\ given_rows = << >>
    /\ cmd = << >>
    /\ read_at = 0
    /\ hdr_ret = NoHeader
    /\ payload = << >>
    /\ hret = "None"
    /\ finish = << >>
    /\ auth = AuthNew
    /\ greeting \in { GreetingNew(id, SERVER_VERSION, salt) :
                        id \in ConnectionIds, salt \in Salts }
    /\ peer = PeerNew
    /\ overflow_checks = FALSE
    /\ client = NoClient
    /\ auth_before = AuthNew
    /\ client_greeting = NoGreeting
    /\ handler_calls = << >>
    /\ len_value = 0
    /\ len_size = 0
    /\ listener = ListenerNew
    /\ conns = << >>

\* what Connection::handle never touches
queryVars == << capability, status_flags, field_sent, send_finished, more, cb_ret,
                calls, given_fields, given_first, given_rows, hret, finish >>

\* connection.rs 50-54, 60-64: set_stream, then the greeting through write_packet,
\* whose result line 62 drops: after a failed write handle goes on to the read.
\* ret keeps the dropped result.  One worker alone: the two writes of write_packet
\* are one step here, and separate steps where workers interleave (SpecListener).
WriteHandshake(sink) ==
    /\ pc = "new"
    /\ LET w == write_packet_on("greeting", write_handshake_v10(greeting, FALSE),
                                sequence_id, sink)
       IN  /\ written' = w.entries
           /\ sequence_id' = w.seq
           /\ ret' = IF w.ok THEN Ret("Ok", "") ELSE Ret("Err", "write failed")
    /\ greeting' = [greeting EXCEPT !.capability = handshake_capability(greeting, FALSE)]
    /\ entry_seq' = sequence_id
    /\ op' = "write_handshake_v10"
    /\ pc' = "greeted"
    /\ UNCHANGED << cmd, read_at, hdr_ret, payload, auth >>
    /\ UNCHANGED queryVars
    /\ UNCHANGED frameVars

\* connection.rs 55: read_ephemeral_packet_direct().unwrap()
ReadHandshakeResponse(stream) ==
    /\ pc = "greeted"
    /\ LET r == read_ephemeral_packet_direct(sequence_id, stream) IN
       /\ sequence_id' = r.seq
       /\ payload' = r.data
       /\ ret' = IF r.ok THEN NoRet ELSE Ret("Panic", r.err)
       /\ pc' = IF r.ok THEN "read" ELSE "panicked"
    /\ cmd' = stream
    /\ read_at' = sequence_id
    /\ hdr_ret' = read_header(sequence_id, HeaderOf(stream))
    /\ entry_seq' = sequence_id
    /\ op' = "read_ephemeral_packet_direct"
    /\ UNCHANGED << written, auth, greeting >>
    /\ UNCHANGED queryVars
    /\ UNCHANGED frameVars

\* connection.rs 56-59: the response is parsed, the result is dropped and handle
\* returns; the worker's closure ends and drops the connection with its stream.
\* ret keeps the dropped result.
ParseHandshakeResponse ==
    /\ pc = "read"
    /\ LET p == parse_client_handshake_packet(auth, payload, FALSE) IN
       /\ auth' = p.auth
       /\ ret' = Ret(IF p.ok THEN "Ok" ELSE "Err", p.err)
    /\ op' = "parse_client_handshake_packet"
    /\ pc' = "closed"
    /\ UNCHANGED << sequence_id, written, entry_seq, cmd, read_at, hdr_ret, payload,
                    greeting >>
    /\ UNCHANGED queryVars
    /\ UNCHANGED frameVars

NextConn ==
    \/ \E sink \in StreamTakes : WriteHandshake(sink)
    \/ \E stream \in HandshakeStreams : ReadHandshakeResponse(stream)
    \/ ParseHandshakeResponse

SpecConn == InitConn /\ [][NextConn]_vars

----------------------------------------------------------------------------
(* Properties of the framer driven command by command.                     *)

\* the operation just made read a complete four-byte header
HeaderRead ==
    /\ op \in { "handle_next_command", "read_ephemeral_packet",
                "read_ephemeral_packet_direct" }
    /\ Len(HeaderOf(cmd)) = 4

\* C1: when the header's sequence byte differs from the framer's sequence_id
\* the read fails with the invalid-sequence error, no payload is returned,
\* sequence_id is not advanced and the command cycle ends without a reply or a
\* handler call; when it matches, read_header advances sequence_id by exactly
\* one and returns the 24-bit little-endian length of the header.
C1_ReadHeaderSequence ==
    HeaderRead =>
        LET h == HeaderOf(cmd) IN
        IF h[4] # read_at
        THEN /\ ret = Ret("Err", "Invalid sequence")
             /\ ~hdr_ret.ok
             /\ payload = << >>
             /\ sequence_id = read_at
             /\ written = << >>
             /\ pc = "idle"
        ELSE /\ hdr_ret.ok
             /\ hdr_ret.seq = read_at + 1
             /\ hdr_ret.len = h[1] + 256 * h[2] + 65536 * h[3]
             /\ ret # Ret("Err", "Invalid sequence")
             /\ op \in { "read_ephemeral_packet", "read_ephemeral_packet_direct" }
                    => sequence_id = read_at + 1

\* C1 witness: a read at sequence_id 2 met a header carrying sequence byte 0
C1_Witness ==
    /\ HeaderRead
    /\ read_at = 2
    /\ HeaderOf(cmd)[4] = 0
    /\ ret = Ret("Err", "Invalid sequence")

\* C3: handle_next_command reads the command's header at sequence_id 0 whatever
\* value the previous cycle left, so a command is accepted exactly when its
\* header's sequence byte is 0.
C3_CommandAcceptedIffSeqZero ==
    (op = "handle_next_command" /\ Len(HeaderOf(cmd)) = 4) =>
        /\ read_at = 0
        /\ hdr_ret.ok <=> HeaderOf(cmd)[4] = 0
        /\ ret = Ret("Err", "Invalid sequence") <=> HeaderOf(cmd)[4] # 0

\* C3 witness: the previous cycle left sequence_id at 2 and the next command,
\* carrying sequence byte 0, was accepted and answered
C3_Witness ==
    /\ op = "handle_next_command"
    /\ entry_seq = 2
    /\ Len(HeaderOf(cmd)) = 4
    /\ HeaderOf(cmd)[4] = 0
    /\ hdr_ret.ok
    /\ ret = Ret("Ok", "")
    /\ Len(written) = 1

\* C2 as stated: in a command cycle every emitted packet is framed, the k-th
\* emitted packet carries sequence byte k, and after k packets the framer's
\* sequence_id is k+1.
C2_AsStated ==
    (op = "handle_next_command" /\ hdr_ret.ok /\ pc # "panicked") =>
        /\ \A k \in 1..Len(written) :
              /\ written[k].framed
              /\ written[k].hdr[4] = k
        /\ sequence_id = Len(written) + 1

\* the positions of the writes of one routine
Of(kind) == { i \in 1..Len(written) : written[i].kind = kind }

\* C7 as stated: a COM_QUERY whose handler sends N >= 1 fields and then row
\* segments emits, in this order, one field-count packet, N column-definition
\* packets, one EOF packet exactly when DEPRECATE_EOF is off, one packet per row
\* in the order given, and one terminator.
C7_AsStated ==
    (/\ op = "handle_next_command"
     /\ hret = "Ok"
     /\ given_fields # << >>
     /\ calls >= 2
     /\ cb_ret = "Ok") =>
        LET n == Len(given_fields)
            r == Len(given_rows)
            e == IF HasBit(capability, CapabilityClientDeprecateEOF) THEN 0 ELSE 1
        IN  /\ Len(written) = 1 + n + e + r + 1
            /\ written[1].body = write_len_int(n)
            /\ \A i \in 1..n :
                  written[1 + i].body = write_column_definition(given_fields[i])
            /\ e = 1 => written[1 + n + 1].kind = "eof"
            /\ \A i \in 1..r : written[1 + n + e + i].body = row_bytes(given_rows[i])
            /\ written[Len(written)].kind \in { "eof", "ok_eof" }

\* C8: exec_query writes no row before the field block: every row on the
\* stream follows the column definitions, and rows come only from invocations
\* of the callback after the one that sent a non-empty field list.
C8_RowsOnlyAfterFields ==
    \A i \in Of("row") :
        /\ field_sent
        /\ given_fields # << >>
        /\ calls >= 2
        /\ Of("column_definition") # { }
        /\ \A j \in Of("column_definition") : j < i
        /\ i - Len(given_fields)
              - (IF HasBit(capability, CapabilityClientDeprecateEOF) THEN 0 ELSE 1)
             \in 1..Len(given_rows)

\* C8 witness: the first invocation carried fields together with a row, a later
\* one carried two rows, and only the later rows are on the stream
C8_Witness ==
    /\ Len(given_fields) = 2
    /\ calls = 2
    /\ Cardinality(Of("row")) = 2
    /\ Cardinality(Of("column_definition")) = 2
    /\ given_rows = << << Value7, ValueNull >>, << ValueNull, Value7 >> >>

\* the terminator exec_query owes for the negotiated capability and the more flag
IsTerminator(e) ==
    LET flags == IF more THEN SetBit(status_flags, SERVER_MORE_RESULTS_EXISTS)
                 ELSE status_flags
    IN  IF HasBit(capability, CapabilityClientDeprecateEOF)
        THEN /\ e.kind = "ok_eof"
             /\ Tail(e.body) = write_len_int(0) \o write_len_int(0)
                                   \o U16LE(flags) \o U16LE(0)
        ELSE /\ e.kind = "eof"
             /\ Tail(e.body) = U16LE(0) \o U16LE(flags)

\* what exec_query wrote after the handler returned is one terminator exactly
\* when fields were sent and no affected-rows OK was
TerminatorRule ==
    /\ Len(finish) <= 1
    /\ Len(finish) = 1 <=> (field_sent /\ ~send_finished)
    /\ Len(finish) = 1 => IsTerminator(finish[1])
    /\ send_finished => finish = << >>

\* C9 as stated: after the handler returns, exec_query emits exactly one
\* terminator iff field_sent and not send_finished: the OK packet with EOF header
\* (0, 0, flags, 0) under DEPRECATE_EOF, else the EOF packet (warnings 0, flags),
\* flags being status_flags with MORE_RESULTS_EXISTS set iff more; after an
\* affected-rows OK no terminator is emitted.
C9_AsStated == hret # "None" => TerminatorRule

\* C9 amended: the rule holds when the handler's com_query returns success;
\* when it returns an error exec_query emits nothing more.
C9_TerminatorOnSuccess ==
    /\ hret = "Ok" => TerminatorRule
    /\ hret = "Err" => finish = << >>

\* C9 witness: fields went out with more set, the handler returned success and
\* the terminator carrying MORE_RESULTS_EXISTS followed
C9_Witness ==
    /\ hret = "Ok"
    /\ more
    /\ field_sent /\ ~send_finished
    /\ Len(finish) = 1
    /\ IsTerminator(finish[1])
    /\ ~HasBit(status_flags, SERVER_MORE_RESULTS_EXISTS)

\* C10: once an invocation of the callback has produced the affected-rows OK,
\* every later invocation returns the I/O error and writes nothing.
C10_FailsafeAfterOk ==
    [][(send_finished /\ calls' = calls + 1) =>
          /\ cb_ret' = "Err"
          /\ written' = written
          /\ sequence_id' = sequence_id
          /\ send_finished']_vars

\* C10 witness: the OK went out at the first invocation and a second invocation
\* was refused
C10_Witness ==
    /\ send_finished
    /\ calls = 2
    /\ cb_ret = "Err"
    /\ Len(written) = 1
    /\ written[1].kind = "ok"

\* the flags exec_query sends: status_flags, with MORE_RESULTS_EXISTS iff more
SentFlags ==
    IF more THEN SetBit(status_flags, SERVER_MORE_RESULTS_EXISTS) ELSE status_flags

\* C11: when the handler's first callback invocation carries an empty field
\* list the server emits exactly one framed OK packet for the statement, with
\* body 0x00, lenenc(affected_rows), lenenc(insert_id), the flags (status_flags
\* plus MORE_RESULTS_EXISTS iff more) little-endian and warnings 0, and nothing
\* else, whatever the handler does afterwards.
C11_AffectedRowsOk ==
    (calls >= 1 /\ given_first.fields = << >>) =>
        LET body == << 0 >> \o write_len_int(given_first.affected_rows)
                        \o write_len_int(given_first.insert_id)
                        \o U16LE(SentFlags) \o << 0, 0 >>
        IN  /\ Len(written) = 1
            /\ written[1].framed
            /\ written[1].body = body
            /\ written[1].hdr = U24LE(Len(body))
                                   \o << IF op = "handle_next_command" THEN 1
                                         ELSE entry_seq >>
            /\ finish = << >>

\* C11 witness: the handler passed affected_rows 300 and insert_id 70000 with
\* more set, called again and returned; one OK packet is all that was written
C11_Witness ==
    /\ calls >= 2
    /\ given_first.fields = << >>
    /\ given_first.affected_rows = 300
    /\ given_first.insert_id = 70000
    /\ more
    /\ hret = "Ok"
    /\ Len(written) = 1
    /\ written[1].body = << 0, 252, 44, 1, 253, 112, 17, 1 >> \o U16LE(SentFlags)
                            \o << 0, 0 >>

\* the handler's first invocation passed fields, all of them written
FieldBlockDone ==
    /\ field_sent
    /\ ~send_finished
    /\ given_fields # << >>
    /\ KnownPrefix(given_fields) = given_fields

\* C12: an EOF packet stands between the last column definition and the first
\* row exactly when DEPRECATE_EOF is not in the capability in effect; with
\* DEPRECATE_EOF nothing stands between the column definitions and the rows.
C12_EofAfterFieldsIffNotDeprecated ==
    FieldBlockDone =>
        LET n == Len(given_fields)
            e == IF HasBit(capability, CapabilityClientDeprecateEOF) THEN 0 ELSE 1
        IN  /\ Len(written) = n + e + Len(given_rows) + Len(finish)
            /\ \A i \in 1..n : written[i].kind = "column_definition"
            /\ e = 1 => /\ written[n + 1].kind = "eof"
                        /\ Tail(written[n + 1].body) = U16LE(0) \o U16LE(status_flags)
            /\ \A i \in 1..Len(given_rows) : written[n + e + i].kind = "row"

\* C12 witness: without DEPRECATE_EOF two column definitions, the EOF and two
\* rows are on the stream in this order
C12_Witness ==
    /\ FieldBlockDone
    /\ ~HasBit(capability, CapabilityClientDeprecateEOF)
    /\ Len(given_fields) = 2
    /\ Len(given_rows) = 2
    /\ written[3].kind = "eof"
    /\ written[4].kind = "row"

\* C13 as stated: the first payload byte of every EOF packet and of every OK
\* packet with EOF header the server emits is 0xFE, distinct from the ERR
\* header 0xFF.
C13_AsStated ==
    \A i \in Of("eof") \cup Of("ok_eof") :
        /\ written[i].body[1] = 254
        /\ written[i].body[1] # ERR_PACKET

\* C14 as stated: a command cycle that returns success has written a response.
C14_AsStated ==
    (op = "handle_next_command" /\ pc = "idle" /\ ret.tag = "Ok") =>
        written # << >>

\* "Unknown error"
MsgUnknownError == << 85, 110, 107, 110, 111, 119, 110, 32, 101, 114, 114, 111, 114 >>

\* C15 as stated: when the handler's com_query returns an error the dispatcher
\* writes one ERR packet (1105, HY000, "Unknown error") and the command cycle
\* returns success.
C15_AsStated ==
    (op = "handle_next_command" /\ hret = "Err") =>
        /\ ret = Ret("Ok", "")
        /\ Cardinality(Of("err")) = 1
        /\ written[Len(written)].kind = "err"
        /\ written[Len(written)].body =
              << 255 >> \o U16LE(1105) \o << 35, 72, 89, 48, 48, 48 >> \o MsgUnknownError

\* the command byte of the command the cycle read, -1 when it read none
CommandByte ==
    IF op = "handle_next_command" /\ hdr_ret.ok /\ payload # << >>
    THEN payload[1] ELSE -1

\* one framed ERR packet with ERUnknownComError and state 08S01 is all that was written
UnknownComErrorReply ==
    /\ Len(written) = 1
    /\ written[1].framed
    /\ written[1].hdr[4] = 1
    /\ Len(written[1].body) >= 9
    /\ SubSeq(written[1].body, 1, 9) =
          << 255 >> \o U16LE(1047) \o << 35, 48, 56, 83, 48, 49 >>

\* C16 as stated: every command byte that is not COM_QUIT, COM_INIT_DB,
\* COM_QUERY, COM_PING, COM_SET_OPTION or a COM_STMT_* code, bytes above 0x1f
\* included, gets one ERR packet (1047, 08S01) and the cycle returns success.
C16_AsStated ==
    (CommandByte >= 0 /\ CommandByte \notin { 1, 2, 3, 14, 27, 22, 23, 24, 25, 26, 28 }) =>
        /\ ret = Ret("Ok", "")
        /\ pc = "idle"
        /\ UnknownComErrorReply

\* C17: when the command's first byte is 0x01 handle_next_command returns the
\* ComQuit signal, writes nothing, and com_query is not invoked.
C17_ComQuit ==
    CommandByte = 1 =>
        /\ ret = Ret("Err", "ComQuit")
        /\ written = << >>
        /\ pc = "idle"
        /\ calls = 0 /\ hret = "None"
        /\ sequence_id = 1

\* C17 witness: a COM_QUIT read after a cycle that left sequence_id at 2
C17_Witness ==
    /\ CommandByte = 1
    /\ entry_seq = 2
    /\ ret = Ret("Err", "ComQuit")
    /\ written = << >>

\* C18 as stated: COM_PING and COM_INIT_DB each produce exactly one framed OK
\* packet (0, 0, status_flags, warnings 0) with sequence byte 1, and the cycle
\* returns success.
C18_AsStated ==
    CommandByte \in { 2, 14 } =>
        /\ ret = Ret("Ok", "")
        /\ Len(written) = 1
        /\ written[1].framed
        /\ written[1].hdr[4] = 1
        /\ written[1].body = << 0, 0, 0 >> \o U16LE(status_flags) \o << 0, 0 >>

\* C19 as stated: COM_SET_OPTION is answered with exactly one packet: for
\* option 0 or 1 an EOF packet (an OK packet with EOF header under
\* DEPRECATE_EOF), for another option or a payload too short for the u16 an
\* ERR packet (1047, 08S01).
C19_AsStated ==
    CommandByte = 27 =>
        /\ Len(written) = 1
        /\ IF Len(payload) >= 3 /\ payload[2] + 256 * payload[3] \in { 0, 1 }
           THEN written[1].kind =
                   (IF HasBit(capability, CapabilityClientDeprecateEOF) THEN "ok_eof"
                    ELSE "eof")
           ELSE UnknownComErrorReply

\* C20 as stated: a command packet whose framed length is zero makes the command
\* read return the EmptyPacket error; no command byte is inspected and the
\* worker does not crash.
C20_AsStated ==
    (op = "handle_next_command" /\ hdr_ret.ok /\ hdr_ret.len = 0) =>
        /\ ret = Ret("Err", "EmptyPacketError")
        /\ pc = "idle"

----------------------------------------------------------------------------
(* Properties of the connection.                                           *)

\* the server's writes of one routine
ConnWrites(kind) == { i \in 1..Len(written) : written[i].kind = kind }

\* C4 as stated: after the greeting and a successfully parsed handshake
\* response the server sends an OK packet and then serves commands until
\* COM_QUIT or an I/O error ends the connection.
C4_AsStated ==
    (op = "parse_client_handshake_packet" /\ ret.tag = "Ok") =>
        /\ ConnWrites("ok") # { }
        /\ pc # "closed"

\* C5 as stated: when the handshake response fails to parse the server sends an
\* ERR packet and closes the connection, and no command is served.
C5_AsStated ==
    (op = "parse_client_handshake_packet" /\ ret.tag = "Err") =>
        /\ ConnWrites("err") # { }
        /\ pc = "closed"
        /\ calls = 0 /\ hret = "None"

\* C6 as stated: a greeting that is written goes out under sequence byte 0 and
\* leaves the framer at 1, the client's response to it is accepted only under
\* sequence byte 1, and the server's OK goes out under sequence byte 2.
C6_AsStated ==
    /\ (op = "write_handshake_v10" /\ ret.tag = "Ok") =>
          /\ Len(written) = 1
          /\ written[1].framed /\ written[1].hdr[4] = 0
          /\ sequence_id = 1
    /\ (op = "read_ephemeral_packet_direct" /\ Len(HeaderOf(cmd)) = 4
           /\ ConnWrites("greeting") # { }) =>
          (hdr_ret.ok <=> HeaderOf(cmd)[4] = 1)
    /\ (op = "parse_client_handshake_packet" /\ ret.tag = "Ok") =>
          \E i \in ConnWrites("ok") : written[i].framed /\ written[i].hdr[4] = 2

----------------------------------------------------------------------------
(* Failed reads of a command.                                              *)

\* the command read met the end of the stream: in the header (fewer than four
\* bytes left) or in the body (fewer bytes left than the header announces)
CommandReadFailed ==
    /\ op = "handle_next_command"
    /\ \/ Len(HeaderOf(cmd)) < 4
       \/ hdr_ret.ok /\ Len(Head(cmd).body) < hdr_ret.len

\* C21: when the read of the command's header or body fails on the stream,
\* handle_next_command returns an error to its caller, has written nothing
\* and has not invoked the handler.
C21_ReadFailureReturnsError ==
    CommandReadFailed =>
        /\ ret.tag = "Err"
        /\ ret.err = IF hdr_ret.ok THEN "UnexpectedEof" ELSE "Read packet header failed"
        /\ written = << >>
        /\ pc = "idle"
        /\ calls = 0 /\ hret = "None" /\ cb_ret = "None"

\* C21 witness: a COM_QUERY whose body is one byte short, read in a cycle entered
\* with sequence_id 2
C21_Witness ==
    /\ CommandReadFailed
    /\ hdr_ret.ok /\ hdr_ret.len = 3
    /\ Head(cmd).body = << 3, 113 >>
    /\ entry_seq = 2
    /\ ret = Ret("Err", "UnexpectedEof")

\* C21 second case: the stream ends inside the header
C21_WitnessHeader ==
    /\ CommandReadFailed
    /\ Len(HeaderOf(cmd)) = 3
    /\ ret = Ret("Err", "Read packet header failed")

----------------------------------------------------------------------------
(* Framing of long payloads.  A byte string of millions of bytes is held   *)
(* as runs: a list of [b, n], n >= 1 copies of byte b, adjacent runs       *)
(* holding different bytes, so that two lists are equal exactly when the   *)
(* byte strings are.  The routines below are the framer's routines over    *)
(* this representation, with the build's overflow checks as an argument.   *)

\* data.len()
RECURSIVE RunsLen(_)
RunsLen(r) == IF r = << >> THEN 0 ELSE Head(r).n + RunsLen(Tail(r))

\* &data[..k]
RECURSIVE RunsTake(_, _)
RunsTake(r, k) ==
    IF k = 0 \/ r = << >> THEN << >>
    ELSE IF Head(r).n <= k THEN << Head(r) >> \o RunsTake(Tail(r), k - Head(r).n)
    ELSE << [b |-> Head(r).b, n |-> k] >>

\* &data[k..]
RECURSIVE RunsDrop(_, _)
RunsDrop(r, k) ==
    IF k = 0 \/ r = << >> THEN r
    ELSE IF Head(r).n <= k THEN RunsDrop(Tail(r), k - Head(r).n)
    ELSE << [b |-> Head(r).b, n |-> Head(r).n - k] >> \o Tail(r)

\* &data[index..index + len]
RunsSub(r, index, len) == RunsTake(RunsDrop(r, index), len)

\* data.extend_from_slice(next)
RunsCat(x, y) ==
    IF x = << >> THEN y
    ELSE IF y = << >> THEN x
    ELSE IF x[Len(x)].b = Head(y).b
    THEN SubSeq(x, 1, Len(x) - 1)
         \o << [b |-> Head(y).b, n |-> x[Len(x)].n + Head(y).n] >> \o Tail(y)
    ELSE x \o y

\* `self.sequence_id += 1` on a u8 (packets.rs 137, 397, 402): a build with overflow
\* checks panics when the counter is 255, a build without them wraps
Overflows(seq, checks) == checks /\ seq = 255

\* what a write routine did: "Ok" it returned, "Panic" it unwound; the writes it made
\* and the sequence_id it left
WOut(tag, entries, seq) == [tag |-> tag, entries |-> entries, seq |-> seq]

\* what a read routine did: "Ok" and "Err" are returns, "Panic" unwinds
ROut(tag, err, data, seq) == [tag |-> tag, err |-> err, data |-> data, seq |-> seq]

RECURSIVE write_packet_long_loop_no_trailer(_, _, _, _, _)
write_packet_long_loop_no_trailer(data, len, index, seq, checks) ==
    LET pkg_len == IF len > MAX_PACKET_SIZE THEN MAX_PACKET_SIZE ELSE len
        header == << pkg_len % 256, (pkg_len \div 256) % 256,
                     (pkg_len \div 65536) % 256, seq >>
        frame == Entry(IF index = 0 THEN "packet" ELSE "fragment", TRUE, header,
                       RunsSub(data, index, pkg_len))
        rest == len - pkg_len
    IN  IF Overflows(seq, checks) THEN WOut("Panic", << frame >>, seq)
        ELSE IF rest = 0 THEN WOut("Ok", << frame >>, Inc8(seq))
        ELSE LET r == write_packet_long_loop_no_trailer(data, rest, index + pkg_len,
                                                        Inc8(seq), checks)
             IN  WOut(r.tag, << frame >> \o r.entries, r.seq)

write_packet_long_no_trailer(data, seq, checks) ==
    write_packet_long_loop_no_trailer(data, RunsLen(data), 0, seq, checks)

\* Packets::write_packet (packets.rs 375-410), the loop
RECURSIVE write_packet_long_loop(_, _, _, _, _)
write_packet_long_loop(data, len, index, seq, checks) ==
    LET pkg_len == IF len > MAX_PACKET_SIZE THEN MAX_PACKET_SIZE ELSE len
        header == << pkg_len % 256, (pkg_len \div 256) % 256,
                     (pkg_len \div 65536) % 256, seq >>
        frame == Entry(IF index = 0 THEN "packet" ELSE "fragment", TRUE, header,
                       RunsSub(data, index, pkg_len))
        seq1 == Inc8(seq)
        trailer == Entry("trailer", TRUE, << 0, 0, 0, seq1 >>, << >>)
        rest == len - pkg_len
    IN  IF Overflows(seq, checks) THEN WOut("Panic", << frame >>, seq)
        ELSE IF rest = 0
        THEN IF pkg_len = MAX_PACKET_SIZE
             THEN IF Overflows(seq1, checks)
                  THEN WOut("Panic", << frame, trailer >>, seq1)
                  ELSE WOut("Ok", << frame, trailer >>, Inc8(seq1))
             ELSE WOut("Ok", << frame >>, seq1)
        ELSE LET r == write_packet_long_loop(data, rest, index + pkg_len, seq1, checks)
             IN  WOut(r.tag, << frame >> \o r.entries, r.seq)

\* Packets::write_packet (packets.rs 375-410)
write_packet_long(data, seq, checks) ==
    write_packet_long_loop(data, RunsLen(data), 0, seq, checks)

\* Packets::read_header (packets.rs 120-149)
read_header_long(seq, header, checks) ==
    IF Len(header) < 4
    THEN [tag |-> "Err", err |-> "Read packet header failed", len |-> 0, seq |-> seq]
    ELSE IF header[4] # seq
    THEN [tag |-> "Err", err |-> "Invalid sequence", len |-> 0, seq |-> seq]
    ELSE IF Overflows(seq, checks)
    THEN [tag |-> "Panic", err |-> "attempt to add with overflow", len |-> 0,
          seq |-> seq]
    ELSE [tag |-> "Ok", err |-> "",
          len |-> header[1] + header[2] * 256 + header[3] * 65536,
          seq |-> Inc8(seq)]

\* Packets::read_content (packets.rs 189-194)
read_content_long(len, body) ==
    IF RunsLen(body) < len
    THEN [tag |-> "Err", err |-> "UnexpectedEof", data |-> << >>]
    ELSE [tag |-> "Ok", err |-> "", data |-> RunsTake(body, len)]

\* Packets::read_one_packet (packets.rs 151-161)
read_one_packet_long(seq, pkt, checks) ==
    LET h == read_header_long(seq, pkt.hdr, checks) IN
    IF h.tag # "Ok" THEN ROut(h.tag, h.err, << >>, h.seq)
    ELSE IF h.len = 0 THEN ROut("Ok", "", << >>, h.seq)
    ELSE LET c == read_content_long(h.len, pkt.body) IN
         ROut(c.tag, c.err, c.data, h.seq)

\* Packets::read_batch_packets (packets.rs 173-186)
RECURSIVE read_batch_packets_long(_, _, _, _)
read_batch_packets_long(seq, data, pkts, checks) ==
    IF pkts = << >> THEN ROut("Err", "Read packet header failed", data, seq)
    ELSE LET next == read_one_packet_long(seq, Head(pkts), checks) IN
         IF next.tag # "Ok" THEN ROut(next.tag, next.err, data, next.seq)
         ELSE IF next.data = << >> THEN ROut("Ok", "", data, next.seq)
         ELSE IF RunsLen(next.data) < MAX_PACKET_SIZE
              THEN ROut("Ok", "", RunsCat(data, next.data), next.seq)
              ELSE read_batch_packets_long(next.seq, RunsCat(data, next.data),
                                           Tail(pkts), checks)

read_packets_first_only(seq, pkts, checks) ==
    IF pkts = << >> THEN ROut("Err", "Read packet header failed", << >>, seq)
    ELSE read_one_packet_long(seq, Head(pkts), checks)

\* Packets::read_packets (packets.rs 163-171)
read_packets(seq, pkts, checks) ==
    IF pkts = << >> THEN ROut("Err", "Read packet header failed", << >>, seq)
    ELSE LET d == read_one_packet_long(seq, Head(pkts), checks) IN
         IF d.tag # "Ok" THEN d
         ELSE IF RunsLen(d.data) < MAX_PACKET_SIZE THEN d
         ELSE read_batch_packets_long(d.seq, d.data, Tail(pkts), checks)

\* Packets::read_ephemeral_packet (packets.rs 99-118)
read_ephemeral_packet_long(seq, pkts, checks) ==
    IF pkts = << >> THEN ROut("Err", "Read packet header failed", << >>, seq)
    ELSE
    LET h == read_header_long(seq, Head(pkts).hdr, checks) IN
    IF h.tag # "Ok" THEN ROut(h.tag, h.err, << >>, h.seq)
    ELSE IF h.len = 0 THEN ROut("Ok", "", << >>, h.seq)
    ELSE LET c == read_content_long(h.len, Head(pkts).body) IN
         IF c.tag # "Ok" THEN ROut(c.tag, c.err, << >>, h.seq)
         ELSE IF h.len > MAX_PACKET_SIZE
              THEN read_batch_packets_long(h.seq, c.data, Tail(pkts), checks)
              ELSE ROut("Ok", "", c.data, h.seq)

\* Packets::read_ephemeral_packet_direct (packets.rs 83-97)
read_ephemeral_packet_direct_long(seq, pkts, checks) ==
    IF pkts = << >> THEN ROut("Err", "Read packet header failed", << >>, seq)
    ELSE
    LET h == read_header_long(seq, Head(pkts).hdr, checks) IN
    IF h.tag # "Ok" THEN ROut(h.tag, h.err, << >>, h.seq)
    ELSE IF h.len = 0 THEN ROut("Ok", "", << >>, h.seq)
    ELSE IF h.len > MAX_PACKET_SIZE
         THEN ROut("Err", "MultiPacketNotSupport", << >>, h.seq)
    ELSE LET c == read_content_long(h.len, Head(pkts).body) IN
         ROut(c.tag, c.err, c.data, h.seq)

----------------------------------------------------------------------------
(* Two framers on one stream: one writes a payload with write_packet, the  *)
(* other reads what was written.                                           *)

\* the longest payload, 64 MiB
MaxLongLen == 67108864

\* the length of a stripe of equal bytes in a striped payload
StripeLen == 5000000

PayloadLengths ==
    { 0, 1, MAX_PACKET_SIZE - 1, MAX_PACKET_SIZE, MAX_PACKET_SIZE + 1,
      2 * MAX_PACKET_SIZE, 2 * MAX_PACKET_SIZE + 1, 3 * MAX_PACKET_SIZE,
      4 * MAX_PACKET_SIZE, MaxLongLen }

\* len copies of one byte
Uniform(len) == IF len = 0 THEN << >> ELSE << [b |-> 7, n |-> len] >>

\* len bytes in stripes: StripeLen bytes 1, StripeLen bytes 2, ...
RECURSIVE Striped(_, _)
Striped(len, i) ==
    IF len = 0 THEN << >>
    ELSE IF len <= StripeLen THEN << [b |-> i % 256, n |-> len] >>
    ELSE << [b |-> i % 256, n |-> StripeLen] >> \o Striped(len - StripeLen, i + 1)

LongPayloads ==
    { Uniform(len) : len \in PayloadLengths } \cup { Striped(len, 1) : len \in PayloadLengths }

\* the frames both framers have exchanged since the counters were last reset
StartSeqs == { 0, 1, 253, 254, 255 }

\* the packets a list of writes puts on the stream
FramesOf(entries) == [i \in 1..Len(entries) |-> [hdr |-> entries[i].hdr,
                                                 body |-> entries[i].body]]

InitFrame ==
    /\ sequence_id \in StartSeqs
    /\ peer = [PeerNew EXCEPT !.sequence_id = sequence_id]
    /\ overflow_checks \in BOOLEAN
    /\ client = NoClient
    /\ auth_before = AuthNew
    /\ client_greeting = NoGreeting
    /\ handler_calls = << >>
    /\ len_value = 0
    /\ len_size = 0
    /\ listener = ListenerNew
    /\ conns = << >>
    /\ capability = 0
    /\ status_flags = 0
    /\ written = << >>
    /\ pc = "idle"
    /\ ret = NoRet
    /\ field_sent = FALSE
    /\ send_finished = FALSE
    /\ more = FALSE
    /\ cb_ret = "None"
    /\ calls = 0
    /\ entry_seq = 0
    /\ op = "none"
    /\ given_fields = << >>
    /\ given_first = NoResult
    /\ given_rows = << >>
    /\ cmd = << >>
    /\ read_at = 0
    /\ hdr_ret = NoHeader
    /\ payload = << >>
    /\ hret = "None"
    /\ finish = << >>
    /\ auth = AuthNew
    /\ greeting = GreetingDefault

\* what the two framers never touch
framerOnly == << capability, status_flags, field_sent, send_finished, more, cb_ret,
                 calls, given_fields, given_first, given_rows, cmd, read_at, hdr_ret,
                 hret, finish, auth, greeting, overflow_checks, client, auth_before,
                 client_greeting, handler_calls, len_value, len_size,
           listener, conns >>

\* a caller invokes write_packet(data)
WritePacket(data) ==
    /\ op = "none"
    /\ LET w == write_packet_long(data, sequence_id, overflow_checks) IN
       /\ written' = w.entries
       /\ sequence_id' = w.seq
       /\ ret' = Ret(w.tag, IF w.tag = "Panic" THEN "attempt to add with overflow"
                            ELSE "")
       /\ pc' = IF w.tag = "Panic" THEN "panicked" ELSE "idle"
    /\ payload' = data
    /\ entry_seq' = sequence_id
    /\ op' = "write_packet"
    /\ UNCHANGED peer
    /\ UNCHANGED framerOnly

\* the peer's read returned or unwound
PeerRead(name, r) ==
    /\ peer' = [op |-> name, sequence_id |-> r.seq, tag |-> r.tag, err |-> r.err,
                data |-> r.data]
    /\ UNCHANGED << sequence_id, written, pc, ret, payload, entry_seq, op >>
    /\ UNCHANGED framerOnly

\* the peer invokes read_packets on what was written
PeerReadPackets ==
    /\ op = "write_packet" /\ peer.op = "none"
    /\ PeerRead("read_packets",
                read_packets(peer.sequence_id, FramesOf(written), overflow_checks))

\* the peer invokes read_ephemeral_packet on what was written
PeerReadEphemeralPacket ==
    /\ op = "write_packet" /\ peer.op = "none"
    /\ PeerRead("read_ephemeral_packet",
                read_ephemeral_packet_long(peer.sequence_id, FramesOf(written),
                                           overflow_checks))

\* the peer invokes read_ephemeral_packet_direct on what was written
PeerReadEphemeralPacketDirect ==
    /\ op = "write_packet" /\ peer.op = "none"
    /\ PeerRead("read_ephemeral_packet_direct",
                read_ephemeral_packet_direct_long(peer.sequence_id, FramesOf(written),
                                                  overflow_checks))

NextFrame ==
    \/ \E data \in LongPayloads : WritePacket(data)
    \/ PeerReadPackets
    \/ PeerReadEphemeralPacket
    \/ PeerReadEphemeralPacketDirect

SpecFrame == InitFrame /\ [][NextFrame]_vars

----------------------------------------------------------------------------
(* Properties of the two framers.                                          *)

\* C22: a framer that starts at sequence_id 0 and reads with read_packets what
\* write_packet(b) of another framer starting at 0 put on the stream gets exactly b,
\* and both framers end with the same sequence_id (lengths 0, 1, around 2^24-1, its
\* multiples, up to 64 MiB).
C22_FramingRoundTrip ==
    (peer.op = "read_packets" /\ entry_seq = 0) =>
        /\ ret.tag = "Ok"
        /\ peer.tag = "Ok"
        /\ peer.data = payload
        /\ peer.sequence_id = sequence_id

\* C22 witness: a striped payload of 2 * (2^24-1) bytes, written as two full frames and
\* a trailer, read back
C22_Witness ==
    /\ peer.op = "read_packets" /\ entry_seq = 0
    /\ RunsLen(payload) = 2 * MAX_PACKET_SIZE /\ Len(payload) > 1
    /\ Len(written) = 3
    /\ peer.data = payload
    /\ peer.sequence_id = 3

\* C23: write_packet on L bytes, when it returns, has emitted L div M full frames
\* followed by one frame of L mod M bytes (M = 2^24-1); the i-th header carries the
\* starting sequence_id plus i-1 (mod 256) and the counter ends one past the last.
\* For L = M from 0 the headers are ff ff ff 00 and 00 00 00 01.
C23_FrameLayout ==
    (op = "write_packet" /\ ret.tag = "Ok") =>
        LET L == RunsLen(payload)
            k == L \div MAX_PACKET_SIZE
        IN  /\ Len(written) = k + 1
            /\ \A i \in 1..k :
                   /\ SubSeq(written[i].hdr, 1, 3) = << 255, 255, 255 >>
                   /\ written[i].body = RunsSub(payload, (i - 1) * MAX_PACKET_SIZE,
                                                MAX_PACKET_SIZE)
            /\ SubSeq(written[k + 1].hdr, 1, 3) = U24LE(L % MAX_PACKET_SIZE)
            /\ written[k + 1].body = RunsDrop(payload, k * MAX_PACKET_SIZE)
            /\ RunsLen(written[k + 1].body) = L % MAX_PACKET_SIZE
            /\ \A i \in 1..(k + 1) :
                   /\ written[i].framed /\ Len(written[i].hdr) = 4
                   /\ written[i].hdr[4] = (entry_seq + i - 1) % 256
            /\ sequence_id = (entry_seq + k + 1) % 256
            /\ (L = MAX_PACKET_SIZE /\ entry_seq = 0) =>
                   /\ written[1].hdr = << 255, 255, 255, 0 >>
                   /\ written[2].hdr = << 0, 0, 0, 1 >>

\* C23 witness: exactly 2^24-1 bytes written from sequence_id 0
C23_Witness ==
    /\ op = "write_packet" /\ ret.tag = "Ok" /\ entry_seq = 0
    /\ RunsLen(payload) = MAX_PACKET_SIZE
    /\ Len(written) = 2
    /\ written[2] = Entry("trailer", TRUE, << 0, 0, 0, 1 >>, << >>)

\* C23 second case: no bytes, one empty frame
C23_WitnessEmpty ==
    /\ op = "write_packet" /\ ret.tag = "Ok" /\ payload = << >>
    /\ written = << Entry("packet", TRUE, << 0, 0, 0, entry_seq >>, << >>) >>

\* C24 as stated: read_ephemeral_packet returns the whole packet the other framer
\* wrote: the first fragment alone when it is shorter than 2^24-1, the concatenation
\* of the fragments up to the first shorter one when it is not.
C24_AsStated ==
    (peer.op = "read_ephemeral_packet" /\ ret.tag = "Ok" /\ peer.tag # "Panic") =>
        /\ peer.tag = "Ok"
        /\ peer.data = payload
        /\ peer.sequence_id = sequence_id

\* C25 as stated: read_ephemeral_packet_direct fails with MultiPacketNotSupport when
\* the first fragment has the length 2^24-1
C25_AsStated ==
    ( /\ peer.op = "read_ephemeral_packet_direct"
      /\ peer.tag # "Panic"
      /\ SubSeq(written[1].hdr, 1, 3) = << 255, 255, 255 >> ) =>
        /\ peer.tag = "Err"
        /\ peer.err = "MultiPacketNotSupport"

\* the writer has sent a frame with sequence byte 255, so it incremented from 255
WriterPassed255 ==
    /\ op = "write_packet"
    /\ \E i \in 1..Len(written) : written[i].hdr[4] = 255

\* C26 as stated: the counter wraps from 255 to 0 without an error, in write_packet
\* and in read_header
C26_AsStated ==
    /\ WriterPassed255 =>
           /\ ret.tag = "Ok"
           /\ sequence_id = (entry_seq + Len(written)) % 256
    /\ (peer.op # "none" /\ \E i \in 1..Len(written) : written[i].hdr[4] = 255) =>
           peer.tag # "Panic"

----------------------------------------------------------------------------
(* A client builds handshake responses with write_handshake_resp and the   *)
(* server parses them into one Auth, through Connection::check_auth        *)
(* (first = true) or as Connection::handle does (first = false).           *)

\* the parses made on one Auth
MaxParses == 2

\* a bit of the client flags that CapabilityFlag does not name
UndefinedBit == 1073741824

\* capabilities a client passes: the default, without CLIENT_SECURE_CONNECTION, with
\* CLIENT_PLUGIN_AUTH_LENENC_CLIENT_DATA, without CLIENT_PLUGIN_AUTH, without
\* CLIENT_MULTI_STATEMENTS, with bits the server does not advertise, without
\* CLIENT_PROTOCOL_41
ClientCapabilities ==
    { DEFAULT_CLIENT_CAPABILITY,
      DEFAULT_CLIENT_CAPABILITY - CapabilityClientSecureConnection,
      DEFAULT_CLIENT_CAPABILITY + CapabilityClientPluginAuthLenencClientData,
      DEFAULT_CLIENT_CAPABILITY - CapabilityClientSecureConnection
          + CapabilityClientPluginAuthLenencClientData,
      DEFAULT_CLIENT_CAPABILITY - CapabilityClientPluginAuth,
      DEFAULT_CLIENT_CAPABILITY - CapabilityClientMultiStatements,
      DEFAULT_CLIENT_CAPABILITY + CapabilityClientSSL,
      DEFAULT_CLIENT_CAPABILITY + CapabilityClientFoundRows,
      DEFAULT_CLIENT_CAPABILITY + UndefinedBit,
      DEFAULT_CLIENT_CAPABILITY - CapabilityClientProtocol41 }

\* charset, user, gen_native_password's result (empty for an empty password) and
\* database a client passes
ClientChoices ==
    { [charset |-> CHARACTER_SET_UTF8, user |-> UserRoot, auth_resp |-> Scramble,
       database |-> DatabaseDb],
      [charset |-> CHARACTER_SET_UTF8, user |-> UserRoot, auth_resp |-> << >>,
       database |-> << >>],
      [charset |-> 2, user |-> << >>, auth_resp |-> Scramble, database |-> << >>],
      [charset |-> 2, user |-> UserRoot, auth_resp |-> << >>,
       database |-> DatabaseDb] }

\* capabilities of the responses that arrive cut: the default, and without
\* CLIENT_PROTOCOL_41
TruncatedCapabilities ==
    { DEFAULT_CLIENT_CAPABILITY,
      DEFAULT_CLIENT_CAPABILITY - CapabilityClientProtocol41 }

InitAuth ==
    /\ auth = AuthNew
    /\ auth_before = AuthNew
    /\ client = NoClient
    /\ client_greeting = NoGreeting
    /\ handler_calls = << >>
    /\ len_value = 0
    /\ len_size = 0
    /\ listener = ListenerNew
    /\ conns = << >>
    /\ payload = << >>
    /\ ret = NoRet
    /\ pc = "new"
    /\ op = "new"
    /\ sequence_id = 0
    /\ capability = 0
    /\ status_flags = 0
    /\ written = << >>
    /\ field_sent = FALSE
    /\ send_finished = FALSE
    /\ more = FALSE
    /\ cb_ret = "None"
    /\ calls = 0
    /\ entry_seq = 0
    /\ given_fields = << >>
    /\ given_first = NoResult
    /\ given_rows = << >>
    /\ cmd = << >>
    /\ read_at = 0
    /\ hdr_ret = NoHeader
    /\ hret = "None"
    /\ finish = << >>
    /\ greeting = GreetingDefault
    /\ peer = PeerNew
    /\ overflow_checks = FALSE

\* what building and parsing a handshake response never touch
authOnly == << sequence_id, capability, status_flags, written, field_sent,
               send_finished, more, cb_ret, calls, entry_seq, given_fields,
               given_first, given_rows, cmd, read_at, hdr_ret, hret, finish, greeting,
               peer, overflow_checks, client_greeting, handler_calls, len_value,
               len_size,
           listener, conns >>

\* a client calls write_handshake_resp(capability, charset, user, password, salt,
\* database); the server receives the payload
WriteHandshakeResp(cap, c) ==
    /\ pc \in { "new", "parsed" }
    /\ client.round < MaxParses
    /\ payload' = write_handshake_resp(cap, c.charset, c.user, c.auth_resp, c.database)
    /\ client' = [round |-> client.round + 1, kind |-> "written",
                  capability |-> cap, charset |-> c.charset, user |-> c.user,
                  auth_resp |-> c.auth_resp, database |-> c.database]
    /\ pc' = "built"
    /\ op' = "write_handshake_resp"
    /\ ret' = NoRet
    /\ UNCHANGED << auth, auth_before >>
    /\ UNCHANGED authOnly

\* the server receives only the first n bytes of the response a client built for
\* user root with a password and no database
TruncatedHandshakeResp(cap, n) ==
    /\ pc \in { "new", "parsed" }
    /\ client.round < MaxParses
    /\ payload' = SubSeq(write_handshake_resp(cap, CHARACTER_SET_UTF8, UserRoot,
                                              Scramble, << >>), 1, n)
    /\ client' = [round |-> client.round + 1, kind |-> "truncated",
                  capability |-> cap, charset |-> CHARACTER_SET_UTF8,
                  user |-> UserRoot, auth_resp |-> Scramble, database |-> << >>]
    /\ pc' = "built"
    /\ op' = "write_handshake_resp"
    /\ ret' = NoRet
    /\ UNCHANGED << auth, auth_before >>
    /\ UNCHANGED authOnly

\* the server calls auth.parse_client_handshake_packet(payload, first)
ParseClientHandshakePacket(first) ==
    /\ pc = "built"
    /\ LET p == parse_client_handshake_packet(auth, payload, first) IN
       /\ auth' = p.auth
       /\ ret' = Ret(IF p.ok THEN "Ok" ELSE "Err", p.err)
    /\ auth_before' = auth
    /\ op' = IF first THEN "check_auth" ELSE "parse_client_handshake_packet"
    /\ pc' = "parsed"
    /\ UNCHANGED << client, payload >>
    /\ UNCHANGED authOnly

\* the server calls auth.clean_resp() (auth.rs 80-82) between two parses
CleanResp ==
    /\ pc = "parsed"
    /\ op # "clean_resp"
    /\ auth' = [auth EXCEPT !.auth_response = << >>]
    /\ op' = "clean_resp"
    /\ ret' = NoRet
    /\ UNCHANGED << pc, payload, client, auth_before >>
    /\ UNCHANGED authOnly

NextAuth ==
    \/ CleanResp
    \/ \E cap \in ClientCapabilities, c \in ClientChoices : WriteHandshakeResp(cap, c)
    \/ \E cap \in TruncatedCapabilities, n \in CutLengths :
           TruncatedHandshakeResp(cap, n)
    \/ \E first \in BOOLEAN : ParseClientHandshakePacket(first)

SpecAuth == InitAuth /\ [][NextAuth]_vars

----------------------------------------------------------------------------
(* Properties of the handshake response parser.                            *)

\* the bits of a u32 the model uses
Bits == { 2 ^ i : i \in 0..30 }

\* a parse has just returned
Parsed == pc = "parsed" /\ op \in { "check_auth", "parse_client_handshake_packet" }

\* the client flags at the head of the payload
ClientFlag == ReadU32LE(payload, 1)

\* C27 as stated: after a successful parse the stored capability_flags has no bit
\* outside the server's advertised capability and the client's flags
C27_AsStated ==
    (Parsed /\ ret.tag = "Ok") =>
        \A bit \in Bits :
            HasBit(auth.capability_flags, bit) =>
                /\ HasBit(DEFAULT_SERVER_CAPABILITY, bit)
                /\ HasBit(ClientFlag, bit)

\* C28: once the client flags carry CLIENT_PROTOCOL_41 the stored capability is, with
\* first true, the client's bits among DEPRECATE_EOF, FOUND_ROWS and MULTI_STATEMENTS,
\* and with first false all the client's bits; so MULTI_STATEMENTS is stored exactly
\* when the client set it.
C28_CapabilityRule ==
    (Parsed /\ Len(payload) >= 4 /\ HasBit(ClientFlag, CapabilityClientProtocol41)) =>
        /\ \A bit \in Bits :
               HasBit(auth.capability_flags, bit) <=>
                   /\ HasBit(ClientFlag, bit)
                   /\ \/ op = "parse_client_handshake_packet"
                      \/ bit \in { CapabilityClientDeprecateEOF,
                                   CapabilityClientFoundRows,
                                   CapabilityClientMultiStatements }
        /\ auth.capability_flags \div UndefinedBit < 2

\* C28 witness: check_auth on flags with DEPRECATE_EOF, FOUND_ROWS, MULTI_STATEMENTS
\* and other bits
C28_Witness ==
    /\ Parsed /\ op = "check_auth" /\ ret.tag = "Ok"
    /\ client.capability = DEFAULT_CLIENT_CAPABILITY + CapabilityClientFoundRows
    /\ auth.capability_flags = CapabilityClientDeprecateEOF + CapabilityClientFoundRows
                               + CapabilityClientMultiStatements

\* C28 second case: first false, flags without MULTI_STATEMENTS
C28_WitnessPlain ==
    /\ Parsed /\ op = "parse_client_handshake_packet" /\ ret.tag = "Ok"
    /\ client.capability = DEFAULT_CLIENT_CAPABILITY - CapabilityClientMultiStatements
    /\ auth.capability_flags = client.capability

\* C29: client flags without CLIENT_PROTOCOL_41 make the parse fail with
\* ProtocolNotSupport and leave the Auth as it was
C29_ProtocolNotSupport ==
    (Parsed /\ Len(payload) >= 4 /\ ~HasBit(ClientFlag, CapabilityClientProtocol41)) =>
        /\ ret = Ret("Err", "ProtocolNotSupport")
        /\ auth = auth_before

\* C29 witness: the second response parsed into an Auth lacks CLIENT_PROTOCOL_41; the
\* Auth holds what the first parse left
C29_Witness ==
    /\ Parsed /\ client.round = 2
    /\ Len(payload) >= 4 /\ ~HasBit(ClientFlag, CapabilityClientProtocol41)
    /\ ret = Ret("Err", "ProtocolNotSupport")
    /\ auth_before.user = UserRoot /\ auth_before.capability_flags # 0
    /\ auth = auth_before

\* C30 as stated: parsing with first false, into a new Auth, what write_handshake_resp
\* built from a capability with CLIENT_PROTOCOL_41 gives back user, database, charset,
\* the plugin name, the capability with CONNECT_WITH_DB set iff a database was given,
\* and the auth response
C30_AsStated ==
    ( /\ Parsed /\ op = "parse_client_handshake_packet"
      /\ client.kind = "written"
      /\ auth_before = AuthNew
      /\ HasBit(client.capability, CapabilityClientProtocol41) ) =>
        /\ ret = Ret("Ok", "")
        /\ auth.user = client.user
        /\ auth.database = client.database
        /\ auth.auth_method = MYSQL_NATIVE_PASSWORD
        /\ auth.character_set = client.charset
        /\ auth.capability_flags =
               IF client.database # << >>
               THEN SetBit(client.capability, CapabilityClientConnectWithDB)
               ELSE ClearBit(client.capability, CapabilityClientConnectWithDB)
        /\ auth.auth_response = client.auth_resp

----------------------------------------------------------------------------
(* The client's side of the greeting: Greeting::parse_client_handshake_packet *)
(* (greeting.rs 93-172) parses what Greeting::write_handshake_v10 wrote.   *)

\* u16 from two little-endian bytes at positions pos, pos+1 (byteorder read_u16)
ReadU16LE(b, pos) == b[pos] + b[pos + 1] * 256

\* what the parse did: "Ok" and "Err" are returns, "Panic" unwinds; the Greeting left
GRet(tag, err, g) == [tag |-> tag, err |-> err, greeting |-> g]

\* greeting.rs 152-171: auth-plugin-data-part-2; len is auth_plugin_part1_len (u8),
\* salt1 the eight bytes read before.  `auth_plugin_part1_len - 8` is a u8
\* subtraction: below 8 a build with overflow checks panics, a build without wraps.
Greeting_parse_salt(g, b, pos, len, salt1, checks) ==
    IF ~HasBit(g.capability, CapabilityClientSecureConnection) THEN GRet("Ok", "", g)
    ELSE IF len < 8 /\ checks
    THEN GRet("Panic", "attempt to subtract with overflow", g)
    ELSE
    LET diff == (len - 8) % 256
        read == IF diff > 13 THEN 13 ELSE diff
        salt2 == read_padded(b, pos, read)
    IN  IF read = 0
        THEN GRet("Panic", IF checks THEN "attempt to subtract with overflow"
                           ELSE "index out of bounds", g)
        ELSE IF salt2[read] # 0 THEN GRet("Err", "ReadSaltError", g)
        ELSE GRet("Ok", "", [g EXCEPT !.salt = salt1 \o SubSeq(salt2, 1, read - 1)])

\* greeting.rs 118-151: capability, status flag, length of the plugin data, ten zeros;
\* pos is the cursor after the byte that follows the first part of the salt
Greeting_parse_flags(g, b, pos, salt1, checks) ==
    IF Len(b) - pos + 1 < 2 THEN GRet("Err", "ReadCapabilityFlagError", g)
    ELSE
    LET lower_capability == ReadU16LE(b, pos)
        p4 == Min(pos + 3, Len(b) + 1)
    IN
    IF Len(b) - p4 + 1 < 2 THEN GRet("Err", "ReadStatusFlagError", g)
    ELSE
    LET g3 == [g EXCEPT !.status_flag = ReadU16LE(b, p4)]
        p5 == p4 + 2
    IN
    IF Len(b) - p5 + 1 < 2 THEN GRet("Err", "ReadCapabilityFlagError", g3)
    ELSE
    LET upper_capability == ReadU16LE(b, p5)
        g4 == [g3 EXCEPT !.capability = upper_capability * 65536 + lower_capability]
        plugin == HasBit(g4.capability, CapabilityClientPluginAuth)
        p6 == p5 + 2
    IN
    IF p6 > Len(b)
    THEN GRet("Err", IF plugin THEN "ReadAuthPluginLenError" ELSE "ReadZeroError", g4)
    ELSE
    LET auth_plugin_part1_len == IF plugin THEN b[p6] ELSE 0
        p7 == p6 + 1
    IN
    IF Len(b) - p7 + 1 < 10 THEN GRet("Err", "ReadZeroError", g4)
    ELSE Greeting_parse_salt(g4, b, p7 + 10, auth_plugin_part1_len, salt1, checks)

\* Greeting::parse_client_handshake_packet (greeting.rs 93-172)
Greeting_parse_client_handshake_packet(g, b, checks) ==
    IF Len(b) < 1 THEN GRet("Err", "ReadProtocolVersionError", g)
    ELSE
    LET v == real_read_until(b, 2, 0, g.server_version)
        g1 == [g EXCEPT !.server_version = v.buf]
    IN
    IF Len(b) - v.pos + 1 < 4 THEN GRet("Err", "ReadConnectionIdError", g1)
    ELSE
    LET g2 == [g1 EXCEPT !.connection_id = ReadU32LE(b, v.pos)]
        salt1 == read_padded(b, v.pos + 4, 8)
        p2 == Min(v.pos + 12, Len(b) + 1)
        p3 == Min(p2 + 1, Len(b) + 1)
    IN  Greeting_parse_flags(g2, b, p3, salt1, checks)

----------------------------------------------------------------------------
(* A server writes the handshake of its Greeting and a client parses it    *)
(* into a default Greeting.                                                *)

\* capabilities of a Greeting: the default, without CLIENT_PLUGIN_AUTH, without
\* CLIENT_SECURE_CONNECTION, without both
GreetingCapabilities ==
    { DEFAULT_SERVER_CAPABILITY,
      DEFAULT_SERVER_CAPABILITY - CapabilityClientPluginAuth,
      DEFAULT_SERVER_CAPABILITY - CapabilityClientSecureConnection,
      DEFAULT_SERVER_CAPABILITY - CapabilityClientPluginAuth
          - CapabilityClientSecureConnection }

\* server versions: "5.7.0" and the empty string
ServerVersions == { SERVER_VERSION, << >> }

\* salts of 20 bytes: those byte_rand draws, and zeros (greeting.rs 205)
GreetingSalts == Salts \cup { [i \in 1..20 |-> 0] }

Greetings ==
    { [status_flag |-> sf, capability |-> cap, connection_id |-> id,
       server_version |-> ver, auth_plugin_name |-> << >>, salt |-> salt] :
        sf \in StatusSet \cup { 0 }, cap \in GreetingCapabilities, id \in ConnectionIds,
        ver \in ServerVersions, salt \in GreetingSalts }

InitGreeting ==
    /\ greeting \in Greetings
    /\ overflow_checks \in BOOLEAN
    /\ client_greeting = NoGreeting
    /\ handler_calls = << >>
    /\ len_value = 0
    /\ len_size = 0
    /\ listener = ListenerNew
    /\ conns = << >>
    /\ payload = << >>
    /\ ret = NoRet
    /\ pc = "new"
    /\ op = "new"
    /\ auth = AuthNew
    /\ auth_before = AuthNew
    /\ client = NoClient
    /\ sequence_id = 0
    /\ capability = 0
    /\ status_flags = 0
    /\ written = << >>
    /\ field_sent = FALSE
    /\ send_finished = FALSE
    /\ more = FALSE
    /\ cb_ret = "None"
    /\ calls = 0
    /\ entry_seq = 0
    /\ given_fields = << >>
    /\ given_first = NoResult
    /\ given_rows = << >>
    /\ cmd = << >>
    /\ read_at = 0
    /\ hdr_ret = NoHeader
    /\ hret = "None"
    /\ finish = << >>
    /\ peer = PeerNew

\* what writing and parsing a greeting never touch
greetingOnly == << sequence_id, capability, status_flags, written, field_sent,
                   send_finished, more, cb_ret, calls, entry_seq, given_fields,
                   given_first, given_rows, cmd, read_at, hdr_ret, hret, finish, peer,
                   overflow_checks, auth, auth_before, client, handler_calls,
                   len_value, len_size,
           listener, conns >>

\* the server calls greeting.write_handshake_v10(enable_tls)
WriteHandshakeV10(enable_tls) ==
    /\ pc = "new"
    /\ payload' = write_handshake_v10(greeting, enable_tls)
    /\ greeting' = [greeting EXCEPT !.capability = handshake_capability(greeting,
                                                                       enable_tls)]
    /\ ret' = Ret("Ok", "")
    /\ pc' = "written"
    /\ op' = "write_handshake_v10"
    /\ UNCHANGED client_greeting
    /\ UNCHANGED greetingOnly

\* the client calls Greeting::default().parse_client_handshake_packet(payload)
ParseGreeting ==
    /\ pc = "written"
    /\ client_greeting' = Greeting_parse_client_handshake_packet(
                              GreetingDefault, payload, overflow_checks)
    /\ pc' = "parsed"
    /\ op' = "Greeting::parse_client_handshake_packet"
    /\ UNCHANGED << greeting, payload, ret >>
    /\ UNCHANGED greetingOnly

NextGreeting ==
    \/ \E enable_tls \in BOOLEAN : WriteHandshakeV10(enable_tls)
    \/ ParseGreeting

SpecGreeting == InitGreeting /\ [][NextGreeting]_vars

\* the parse returned success and gave back what the server's Greeting holds
GreetingRoundTrip ==
    /\ client_greeting.tag = "Ok"
    /\ client_greeting.greeting.connection_id = greeting.connection_id
    /\ client_greeting.greeting.server_version = greeting.server_version
    /\ client_greeting.greeting.capability = greeting.capability
    /\ client_greeting.greeting.status_flag = greeting.status_flag
    /\ client_greeting.greeting.salt = greeting.salt

\* C31 as stated: parsing into a default Greeting the payload of
\* write_handshake_v10(G, false) succeeds and gives back connection_id,
\* server_version, capability, status_flag and salt, for every capability
C31_AsStated ==
    (pc = "parsed" /\ op = "Greeting::parse_client_handshake_packet"
       /\ ~HasBit(greeting.capability, CapabilityClientSSL)) =>
        GreetingRoundTrip

----------------------------------------------------------------------------
(* Handshake responses that arrive cut, and parses into an Auth that has   *)
(* parsed before (SpecAuth).                                               *)

\* C32: a handshake response that ends inside a fixed-size leading field never
\* parses; the error is the one of the field it ends in: ReadClientFlagError under
\* 4 bytes, then (the flags carrying CLIENT_PROTOCOL_41, otherwise the flags' own
\* ProtocolNotSupport) ReadMaxPacketSizeError under 8 bytes, ReadCharsetError under
\* 9 and ReadZeroError under 32
C32_TruncatedFixedFields ==
    (Parsed /\ Len(payload) < 32) =>
        ret = Ret("Err",
                  IF Len(payload) < 4 THEN "ReadClientFlagError"
                  ELSE IF ~HasBit(ClientFlag, CapabilityClientProtocol41)
                       THEN "ProtocolNotSupport"
                  ELSE IF Len(payload) < 8 THEN "ReadMaxPacketSizeError"
                  ELSE IF Len(payload) < 9 THEN "ReadCharsetError"
                  ELSE "ReadZeroError")

\* C32 as stated: a response that ends inside a fixed-size leading field fails
\* with the error of the field it ends in, whatever its flags: ReadClientFlagError
\* under 4 bytes, ReadMaxPacketSizeError under 8, ReadCharsetError under 9 and
\* ReadZeroError under 32
C32_AsStated ==
    (Parsed /\ Len(payload) < 32) =>
        ret = Ret("Err",
                  IF Len(payload) < 4 THEN "ReadClientFlagError"
                  ELSE IF Len(payload) < 8 THEN "ReadMaxPacketSizeError"
                  ELSE IF Len(payload) < 9 THEN "ReadCharsetError"
                  ELSE "ReadZeroError")

\* C32 witness: a response cut inside the 23 reserved bytes fails with ReadZeroError
C32_Witness ==
    /\ Parsed /\ client.kind = "truncated"
    /\ Len(payload) = 20 /\ HasBit(ClientFlag, CapabilityClientProtocol41)
    /\ ret = Ret("Err", "ReadZeroError")

\* C32, the other fields: cut inside the flags, inside max_packet_size, before the
\* charset
C32_WitnessFlag ==
    /\ Parsed /\ Len(payload) = 3 /\ ret = Ret("Err", "ReadClientFlagError")

C32_WitnessMaxPacketSize ==
    /\ Parsed /\ Len(payload) = 6 /\ HasBit(ClientFlag, CapabilityClientProtocol41)
    /\ ret = Ret("Err", "ReadMaxPacketSizeError")

C32_WitnessCharset ==
    /\ Parsed /\ Len(payload) = 8 /\ HasBit(ClientFlag, CapabilityClientProtocol41)
    /\ ret = Ret("Err", "ReadCharsetError")

----------------------------------------------------------------------------
(* The handler's lifecycle methods on one connection (SpecConn).           *)

\* how many times Connection::handle has called the Handler method named
HandlerCalled(method) ==
    Cardinality({ i \in 1..Len(handler_calls) : handler_calls[i] = method })

\* C33 as stated: once the handshake response has parsed, new_connection has been
\* called exactly once, after the OK packet was sent; once the connection has ended,
\* on COM_QUIT or on a failed read, close_connection has been called exactly once
\* and is the last call made to the handler.
C33_AsStated ==
    /\ (op = "parse_client_handshake_packet" /\ ret.tag = "Ok") =>
           /\ HandlerCalled("new_connection") = 1
           /\ ConnWrites("ok") # { }
    /\ pc \in { "closed", "panicked" } =>
           /\ HandlerCalled("close_connection") = 1
           /\ handler_calls[Len(handler_calls)] = "close_connection"

----------------------------------------------------------------------------
(* Length-encoded integers: write_len_int on a new Vec<u8> and             *)
(* len_enc_int_size, on the same value (packets.rs 36-61, 571-581).        *)

\* how far around each boundary the values are taken
MaxNear == 8

\* where the encoding changes form
LenBoundaries == { 251, 65536, 16777216 }

\* values far inside the last form, up to the largest the checker's integers hold
LargeValues == { 1000000000, 2147483647 }

LenValues ==
    (0..MaxNear)
    \cup UNION { (b - MaxNear)..(b + MaxNear) : b \in LenBoundaries }
    \cup LargeValues

InitLen ==
    /\ len_value \in LenValues
    /\ len_size = 0
    /\ payload = << >>
    /\ pc = "new"
    /\ op = "new"
    /\ ret = NoRet
    /\ sequence_id = 0
    /\ capability = 0
    /\ status_flags = 0
    /\ written = << >>
    /\ field_sent = FALSE
    /\ send_finished = FALSE
    /\ more = FALSE
    /\ cb_ret = "None"
    /\ calls = 0
    /\ entry_seq = 0
    /\ given_fields = << >>
    /\ given_first = NoResult
    /\ given_rows = << >>
    /\ cmd = << >>
    /\ read_at = 0
    /\ hdr_ret = NoHeader
    /\ hret = "None"
    /\ finish = << >>
    /\ auth = AuthNew
    /\ greeting = GreetingDefault
    /\ peer = PeerNew
    /\ overflow_checks = FALSE
    /\ client = NoClient
    /\ auth_before = AuthNew
    /\ client_greeting = NoGreeting
    /\ handler_calls = << >>
    /\ listener = ListenerNew
    /\ conns = << >>

\* what the two functions never touch
lenOnly == << sequence_id, capability, status_flags, written, pc, field_sent,
             send_finished, more, cb_ret, calls, entry_seq, given_fields, given_first,
             given_rows, cmd, read_at, hdr_ret, hret, finish, auth, greeting, peer,
             overflow_checks, client, auth_before, client_greeting, handler_calls,
             len_value, listener, conns >>

\* Vec::new().write_len_int(len_value)
WriteLenInt ==
    /\ payload = << >>
    /\ payload' = write_len_int(len_value)
    /\ ret' = Ret("Ok", "")
    /\ op' = "write_len_int"
    /\ UNCHANGED len_size
    /\ UNCHANGED lenOnly

\* len_enc_int_size(len_value)
LenEncIntSize ==
    /\ len_size = 0
    /\ len_size' = len_enc_int_size(len_value)
    /\ op' = "len_enc_int_size"
    /\ UNCHANGED << payload, ret >>
    /\ UNCHANGED lenOnly

NextLen ==
    \/ WriteLenInt
    \/ LenEncIntSize

SpecLen == InitLen /\ [][NextLen]_vars

\* C34: write_len_int emits the value itself in one byte under 251, 0xFC and two
\* little-endian bytes under 2^16, 0xFD and three under 2^24, 0xFE and eight
\* otherwise; len_enc_int_size returns 1, 3, 4, 9 in the same cases, and the number
\* of bytes emitted is what len_enc_int_size returns
C34_LenEncInt ==
    /\ payload # << >> =>
          /\ len_value < 251 => payload = << len_value >>
          /\ (len_value >= 251 /\ len_value < 65536) =>
                 /\ Len(payload) = 3 /\ payload[1] = 252
                 /\ payload[2] + payload[3] * 256 = len_value
          /\ (len_value >= 65536 /\ len_value < 16777216) =>
                 /\ Len(payload) = 4 /\ payload[1] = 253
                 /\ payload[2] + payload[3] * 256 + payload[4] * 65536 = len_value
          /\ len_value >= 16777216 =>
                 /\ Len(payload) = 9 /\ payload[1] = 254
                 /\ payload[2] + payload[3] * 256 + payload[4] * 65536
                        + payload[5] * 16777216 = len_value
                 /\ \A i \in 6..9 : payload[i] = 0
          /\ \A i \in 1..Len(payload) : payload[i] \in 0..255
    /\ len_size # 0 =>
          len_size = IF len_value < 251 THEN 1
                     ELSE IF len_value < 65536 THEN 3
                     ELSE IF len_value < 16777216 THEN 4
                     ELSE 9
    /\ (payload # << >> /\ len_size # 0) => Len(payload) = len_size

\* C34 witness: both functions applied to 16777216, the first value of the last form
C34_Witness ==
    /\ len_value = 16777216
    /\ len_size = 9
    /\ payload = << 254, 0, 0, 0, 1, 0, 0, 0, 0 >>

\* C34, the other boundaries
C34_Witness250 ==
    /\ len_value = 250 /\ len_size = 1 /\ payload = << 250 >>

C34_Witness251 ==
    /\ len_value = 251 /\ len_size = 3 /\ payload = << 252, 251, 0 >>

C34_Witness65535 ==
    /\ len_value = 65535 /\ len_size = 3 /\ payload = << 252, 255, 255 >>

C34_Witness65536 ==
    /\ len_value = 65536 /\ len_size = 4 /\ payload = << 253, 0, 0, 1 >>

C34_Witness16777215 ==
    /\ len_value = 16777215 /\ len_size = 4 /\ payload = << 253, 255, 255, 255 >>

----------------------------------------------------------------------------
(* COM_SET_OPTION across command cycles (Spec).                            *)

\* the cycle that just ended served COM_SET_OPTION with option n (0 or 1)
SetOptionSucceeded(n) ==
    /\ op = "handle_next_command" /\ pc = "idle"
    /\ ret = Ret("Ok", "")
    /\ payload = << 27, n, 0 >>

\* C35 as stated: after a COM_SET_OPTION with option 0 (1) succeeded, the capability
\* in effect in the next command cycle, when that cycle serves another command,
\* has MULTI_STATEMENTS set (cleared)
C35_AsStated ==
    [][ \A n \in { 0, 1 } :
          ( /\ SetOptionSucceeded(n)
            /\ op' = "handle_next_command"
            /\ payload' # << >> /\ payload'[1] # 27 ) =>
              (HasBit(capability', CapabilityClientMultiStatements) <=> n = 0) ]_vars

----------------------------------------------------------------------------
(* The length-prefixed auth response (SpecAuth).                           *)

\* where the auth response's length byte stands: after the user's terminator,
\* 0 when the payload ends before it
AuthRespLenAt ==
    IF Len(payload) < 33 \/ FirstAt(payload, 0, 33) = 0
       \/ FirstAt(payload, 0, 33) = Len(payload)
    THEN 0
    ELSE FirstAt(payload, 0, 33) + 1

\* a parse into a new Auth reached a length-prefixed auth response
LengthPrefixedResponse ==
    /\ Parsed /\ auth_before = AuthNew
    /\ Len(payload) >= 4 /\ HasBit(ClientFlag, CapabilityClientProtocol41)
    /\ \/ HasBit(auth.capability_flags, CapabilityClientPluginAuthLenencClientData)
       \/ HasBit(auth.capability_flags, CapabilityClientSecureConnection)
    /\ AuthRespLenAt # 0

\* C36 as stated: the auth response parsed is exactly the declared number of bytes
\* of the payload, and a payload that holds fewer bytes than declared fails with
\* ReadAuthResponseError
C36_AsStated ==
    LengthPrefixedResponse =>
        LET declared == payload[AuthRespLenAt]
            held == Len(payload) - AuthRespLenAt
        IN  IF held >= declared
            THEN ret.tag = "Ok" =>
                     auth.auth_response =
                         SubSeq(payload, AuthRespLenAt + 1, AuthRespLenAt + declared)
            ELSE ret = Ret("Err", "ReadAuthResponseError")

----------------------------------------------------------------------------
(* SERVER_MORE_RESULTS_EXISTS in the packets of a command cycle (Spec).    *)

\* the OK, EOF and terminator packets written so far
StatusPackets ==
    { i \in 1..Len(written) : written[i].kind \in { "ok", "ok_eof", "eof" } }

\* the status flags a packet carries: the last two bytes of an EOF packet, the two
\* bytes before the warnings of an OK packet
PacketStatus(e) ==
    IF e.kind = "eof"
    THEN e.body[4] + e.body[5] * 256
    ELSE e.body[Len(e.body) - 3] + e.body[Len(e.body) - 2] * 256

\* C37: in a cycle of handle_next_command exec_query runs with more = false, and no
\* OK, EOF or terminator packet of the cycle carries SERVER_MORE_RESULTS_EXISTS
\* unless the status_flags given to handle_next_command carry it, with and without
\* MULTI_STATEMENTS
C37_NoMoreResults ==
    op = "handle_next_command" =>
        /\ more = FALSE
        /\ \A i \in StatusPackets :
               HasBit(PacketStatus(written[i]), SERVER_MORE_RESULTS_EXISTS) =>
                   HasBit(status_flags, SERVER_MORE_RESULTS_EXISTS)

\* C37 witness: with MULTI_STATEMENTS in effect a COM_QUERY was answered with a
\* result set and its terminator, none of them with SERVER_MORE_RESULTS_EXISTS
C37_Witness ==
    /\ op = "handle_next_command" /\ CommandByte = 3
    /\ HasBit(capability, CapabilityClientMultiStatements)
    /\ ~HasBit(status_flags, SERVER_MORE_RESULTS_EXISTS)
    /\ pc = "idle" /\ hret = "Ok" /\ finish # << >>
    /\ StatusPackets # { }
    /\ \A i \in StatusPackets : PacketStatus(written[i]) = status_flags

\* C37, the bit passed in: the packets carry it because status_flags does
C37_WitnessPassed ==
    /\ op = "handle_next_command" /\ CommandByte = 3
    /\ HasBit(status_flags, SERVER_MORE_RESULTS_EXISTS)
    /\ more = FALSE
    /\ \E i \in StatusPackets :
           HasBit(PacketStatus(written[i]), SERVER_MORE_RESULTS_EXISTS)

----------------------------------------------------------------------------
(* Several connections: Listener::accept (listener.rs 47-66) hands every   *)
(* accepted stream to a new thread whose closure builds its own Connection *)
(* and runs Connection::handle on it; the threads' steps interleave.  The  *)
(* crate has one static, the read-only table TYPE_TO_MYSQL.                *)

\* the streams accepted
MaxConnections == 2

\* the salt byte_rand draws for a connection
ListenerSalts == { DEFAULT_SALT }

\* a response whose flags lack CLIENT_PROTOCOL_41
ResponseOld ==
    write_handshake_resp(CapabilityClientLongPassword, CHARACTER_SET_UTF8, UserRoot,
                         Scramble, << >>)

\* what a client's stream holds when its worker reads the response: nothing, a
\* response, a response without CLIENT_PROTOCOL_41, a response cut inside the flags,
\* a response under sequence byte 0, a body shorter than its header announces
ListenerStreams ==
    { << >>,
      << Packet(Len(ResponseRoot), 1, ResponseRoot) >>,
      << Packet(Len(ResponseOld), 1, ResponseOld) >>,
      << Packet(3, 1, SubSeq(ResponseRoot, 1, 3)) >>,
      << Packet(Len(ResponseRoot), 0, ResponseRoot) >>,
      << Packet(Len(ResponseRoot) + 1, 1, ResponseRoot) >> }

\* how many bytes a client's stream takes from one write_all of its worker
ListenerTakes == { FailsAfter(2), Unfailing }

\* turns of the accept loop that meet a failed connection
MaxAcceptErrors == 1

\* Connection::new(id, server_version) (connection.rs 27-35) with Packets::new
\* (packets.rs 64-71), not yet handled
ConnectionNew(id, salt) ==
    [id |-> id, pc |-> "new", sequence_id |-> 0, capability |-> 0, status_flags |-> 0,
     written |-> << >>, length |-> 0, payload |-> << >>, ret |-> NoRet,
     auth |-> AuthNew, greeting |-> GreetingNew(id, SERVER_VERSION, salt)]

\* connection.rs 50-54, 60-64 on the Connection c: write_handshake_v10 builds the
\* greeting and write_packet makes its first write, write_all of the header
\* (packets.rs 391); when it fails write_packet returns, line 62 drops the result
\* and handle goes on to the read.  The greeting fits one frame: the loop of
\* write_packet runs once.
connection_write_header(c, sink) ==
    LET data == write_handshake_v10(c.greeting, FALSE)
        h == write_all(frame_header(Len(data), c.sequence_id), sink)
        d == [c EXCEPT !.greeting.capability = handshake_capability(c.greeting, FALSE),
                       !.written = Partial(h.taken, << >>)]
    IN  IF h.ok THEN [d EXCEPT !.pc = "header_written"]
        ELSE [d EXCEPT !.ret = Ret("Err", "write failed"), !.pc = "greeted"]

\* the second write of write_packet, write_all of the body, then sequence_id += 1
\* (packets.rs 396-397); the result is dropped at connection.rs 62
connection_write_body(c, sink) ==
    LET data == write_handshake_v10(c.greeting, FALSE)
        b == write_all(data, sink)
        w == write_packet("greeting", data, c.sequence_id)
    IN  IF b.ok
        THEN [c EXCEPT !.written = w.entries, !.sequence_id = w.seq,
                       !.ret = Ret("Ok", ""), !.pc = "greeted"]
        ELSE [c EXCEPT !.written = Partial(frame_header(Len(data), c.sequence_id),
                                           b.taken),
                       !.ret = Ret("Err", "write failed"), !.pc = "greeted"]

\* connection.rs 55 on the Connection c, the first wait of
\* read_ephemeral_packet_direct (packets.rs 84-90): read_header, then the match on
\* the length; a length to read leaves the worker before read_content
connection_read_header(c, stream) ==
    LET h == read_header(c.sequence_id, HeaderOf(stream))
        d == [c EXCEPT !.sequence_id = h.seq, !.length = h.len]
    IN  IF ~h.ok THEN [d EXCEPT !.ret = Ret("Panic", h.err), !.pc = "panicked"]
        ELSE IF h.len = 0 THEN [d EXCEPT !.payload = << >>, !.ret = NoRet, !.pc = "read"]
        ELSE IF h.len > MAX_PACKET_SIZE
             THEN [d EXCEPT !.ret = Ret("Panic", "MultiPacketNotSupport"),
                            !.pc = "panicked"]
        ELSE [d EXCEPT !.ret = NoRet, !.pc = "header_read"]

\* the second wait (packets.rs 91-95): read_content of the announced length from
\* what the client delivers as the body, and the unwrap of connection.rs 55
connection_read_content(c, body) ==
    LET r == read_content(c.length, body)
    IN  [c EXCEPT !.payload = r.data,
                  !.ret = IF r.ok THEN NoRet ELSE Ret("Panic", r.err),
                  !.pc = IF r.ok THEN "read" ELSE "panicked"]

\* connection.rs 56-59 on the Connection c: the parse, and handle returns
connection_parse_response(c) ==
    LET p == parse_client_handshake_packet(c.auth, c.payload, FALSE)
    IN  [c EXCEPT !.auth = p.auth,
                  !.ret = Ret(IF p.ok THEN "Ok" ELSE "Err", p.err),
                  !.pc = "closed"]

\* one Connection behind all the workers
SharedConnection(w, c) == [d \in 1..Len(conns) |-> c]

\* listener.rs 57-60: the closure moved into the thread owns conn; what worker w
\* does to its Connection reaches no other worker's
OwnConnection(w, c) == [conns EXCEPT ![w] = c]

InitListener ==
    /\ listener = ListenerNew
    /\ conns = << >>
    /\ sequence_id = 0
    /\ capability = 0
    /\ status_flags = 0
    /\ written = << >>
    /\ pc = "new"
    /\ op = "new"
    /\ ret = NoRet
    /\ field_sent = FALSE
    /\ send_finished = FALSE
    /\ more = FALSE
    /\ cb_ret = "None"
    /\ calls = 0
    /\ entry_seq = 0
    /\ given_fields = << >>
    /\ given_first = NoResult
    /\ given_rows = << >>
    /\ cmd = << >>
    /\ read_at = 0
    /\ hdr_ret = NoHeader
    /\ payload = << >>
    /\ hret = "None"
    /\ finish = << >>
    /\ auth = AuthNew
    /\ greeting = GreetingDefault
    /\ peer = PeerNew
    /\ overflow_checks = FALSE
    /\ client = NoClient
    /\ auth_before = AuthNew
    /\ client_greeting = NoGreeting
    /\ handler_calls = << >>
    /\ len_value = 0
    /\ len_size = 0

\* what the listener and its workers never touch
listenerOnly == << sequence_id, capability, status_flags, written, pc, ret, field_sent,
                  send_finished, more, cb_ret, calls, entry_seq, op, given_fields,
                  given_first, given_rows, cmd, read_at, hdr_ret, payload, hret, finish,
                  auth, greeting, peer, overflow_checks, client, auth_before,
                  client_greeting, handler_calls, len_value, len_size >>

\* listener.rs 49-60: one turn of the accept loop on an incoming stream; the new
\* thread builds its Connection from the counter's value
Accept(salt) ==
    /\ Len(conns) < MaxConnections
    /\ conns' = Append(conns, ConnectionNew(listener.connection_id, salt))
    /\ listener' = [listener EXCEPT !.connection_id = listener.connection_id + 1]
    /\ UNCHANGED listenerOnly

\* listener.rs 49-51, 61-63: one turn of the accept loop on a failed connection;
\* the counter moves before the match and no worker is spawned
AcceptError ==
    /\ listener.connection_id - Len(conns) < MaxAcceptErrors
    /\ listener' = [listener EXCEPT !.connection_id = listener.connection_id + 1]
    /\ UNCHANGED conns
    /\ UNCHANGED listenerOnly

\* worker w writes the header of the greeting
WorkerWriteHeader(w, sink) ==
    /\ conns[w].pc = "new"
    /\ conns' = OwnConnection(w, connection_write_header(conns[w], sink))
    /\ UNCHANGED listener
    /\ UNCHANGED listenerOnly

\* worker w writes the body of the greeting
WorkerWriteBody(w, sink) ==
    /\ conns[w].pc = "header_written"
    /\ conns' = OwnConnection(w, connection_write_body(conns[w], sink))
    /\ UNCHANGED listener
    /\ UNCHANGED listenerOnly

\* worker w reads the header of its client's response
WorkerReadHeader(w, stream) ==
    /\ conns[w].pc = "greeted"
    /\ conns' = OwnConnection(w, connection_read_header(conns[w], stream))
    /\ UNCHANGED listener
    /\ UNCHANGED listenerOnly

\* worker w reads the body its client delivers after a header of that length
WorkerReadContent(w, stream) ==
    /\ conns[w].pc = "header_read"
    /\ Len(HeaderOf(stream)) = 4
    /\ read_header_unchecked(0, HeaderOf(stream)).len = conns[w].length
    /\ conns' = OwnConnection(w, connection_read_content(conns[w], Head(stream).body))
    /\ UNCHANGED listener
    /\ UNCHANGED listenerOnly

\* worker w parses the response and ends
WorkerParseResponse(w) ==
    /\ conns[w].pc = "read"
    /\ conns' = OwnConnection(w, connection_parse_response(conns[w]))
    /\ UNCHANGED listener
    /\ UNCHANGED listenerOnly

NextListener ==
    \/ \E salt \in ListenerSalts : Accept(salt)
    \/ AcceptError
    \/ \E w \in 1..Len(conns), sink \in ListenerTakes : WorkerWriteHeader(w, sink)
    \/ \E w \in 1..Len(conns), sink \in ListenerTakes : WorkerWriteBody(w, sink)
    \/ \E w \in 1..Len(conns), stream \in ListenerStreams :
           WorkerReadHeader(w, stream)
    \/ \E w \in 1..Len(conns), stream \in ListenerStreams :
           WorkerReadContent(w, stream)
    \/ \E w \in 1..Len(conns) : WorkerParseResponse(w)

SpecListener == InitListener /\ [][NextListener]_vars

\* the framer's counters and the Auth of a connection
ConnectionState(c) == << c.sequence_id, c.capability, c.status_flags, c.auth >>

\* C38: under every interleaving, a step that changes one worker's connection
\* leaves every other connection's sequence_id, capability, status_flags and Auth
\* as they were, and accepting a stream changes no existing connection
C38_Isolation ==
    [][ /\ \A w \in 1..Len(conns), d \in 1..Len(conns) :
              (d # w /\ conns'[w] # conns[w]) =>
                  ConnectionState(conns'[d]) = ConnectionState(conns[d])
        /\ Len(conns') # Len(conns) =>
              \A d \in 1..Len(conns) : conns'[d] = conns[d] ]_vars

\* C38 witness: the first worker has read its response's header and waits for the
\* body while the second connection, accepted after it, has sent its greeting,
\* parsed its response and ended
C38_Witness ==
    /\ Len(conns) = 2
    /\ conns[1].pc = "header_read" /\ conns[1].auth = AuthNew
    /\ conns[1].sequence_id = 2
    /\ conns[2].pc = "closed" /\ conns[2].auth.user = UserRoot
    /\ conns[2].auth.capability_flags = DEFAULT_CLIENT_CAPABILITY
    /\ conns[2].sequence_id = 2
    /\ conns[2].greeting.connection_id = 1

----------------------------------------------------------------------------
(* Parsing into an Auth that has parsed before (SpecAuth).                 *)

\* what the parse just made returns on a new Auth
FreshParse == parse_client_handshake_packet(AuthNew, payload, op = "check_auth")

\* C39 as stated: a parse that succeeds leaves the user, auth_response, database
\* and auth_method that the same parse of the same payload leaves in a new Auth,
\* whatever the Auth held before
C39_AsStated ==
    (Parsed /\ ret.tag = "Ok") =>
        /\ auth.user = FreshParse.auth.user
        /\ auth.auth_response = FreshParse.auth.auth_response
        /\ auth.database = FreshParse.auth.database
        /\ auth.auth_method = FreshParse.auth.auth_method

----------------------------------------------------------------------------
(* check_auth's parse (first = true) against Connection::handle's (first = *)
(* false) on one payload (SpecAuth).                                       *)

\* check_auth has parsed, into a new Auth, a response written with
\* SECURE_CONNECTION, PLUGIN_AUTH and a database
FirstParseOfFullResponse ==
    /\ Parsed /\ op = "check_auth"
    /\ auth_before = AuthNew
    /\ client.kind = "written" /\ client.database # << >>
    /\ HasBit(client.capability, CapabilityClientProtocol41)
    /\ HasBit(client.capability, CapabilityClientSecureConnection)
    /\ HasBit(client.capability, CapabilityClientPluginAuth)

\* what the parse with first = false returns for the payload on a new Auth
LaterParse == parse_client_handshake_packet(AuthNew, payload, FALSE)

\* C40 as stated: on such a response the parse with first = true gives the user,
\* auth_response, database and auth_method that the parse with first = false gives
C40_AsStated ==
    FirstParseOfFullResponse =>
        /\ (ret.tag = "Ok") = LaterParse.ok
        /\ auth.user = LaterParse.auth.user
        /\ auth.auth_response = LaterParse.auth.auth_response
        /\ auth.database = LaterParse.auth.database
        /\ auth.auth_method = LaterParse.auth.auth_method

====
